---- MODULE Spec2Model ----
(***************************************************************************)
(* Block builder, block aggregates and chain synchronisation of tzindex.  *)
(*                                                                         *)
(*   etl/op_implicit.go   Builder.AppendImplicitEvents,                    *)
(*                        Builder.AppendImplicitBlockOps                   *)
(*   etl/model/block.go   Block.Update, Block.Rollback, Block.NextN        *)
(*   design 4.3, 4.4      Indexer.Commit, Indexer.Rollback, Crawler         *)
(*                                                                         *)
(* Amounts are integers (mutez).  Op, Flow and Block are records that     *)
(* carry the fields the modelled code reads or writes.                    *)
(***************************************************************************)
EXTENDS Integers, Sequences, FiniteSets, TLC

VARIABLES
    version,    \* b.block.Params.Version
    flows,      \* the result of b.NewImplicitFlows()
    results,    \* b.block.TZ.Block.Metadata.ImplicitOperationsResults
    block,      \* the Block under construction (Ops, Flows, counters, flags)
    parent,     \* block.Parent: [NSlotsEndorsed |-> n], or NoParent
    accounts,   \* first argument of Block.Update
    bakers,     \* second argument of Block.Update
    conMap,     \* b.conMap: account ids with a registered contract
    err,        \* the error returned by the last builder call ("" = nil)
    pc,         \* position of the builder in the build of one block
    prev,       \* the block as the previous Block.Update left it
    node,       \* the upstream node's canonical chain, by height
    forks,      \* how many competing chains the node has switched to
    store,      \* the committed block rows, by height
    head,       \* the persisted head pointer: [Height, Hash]
    cstate,     \* crawler state: "running", "rollback" or "failed"
    target,     \* the chain the crawler's current poll cycle follows
    anc,        \* common ancestor height of the last fork (0 = no fork yet)
    before,     \* the block rows as they were when the last fork was detected
    pending,    \* the built block and its parent awaiting Commit, or <<>>
    log,        \* indexer and builder calls since the last fork was detected
    failures,   \* failed or cancelled commits so far
    run,        \* runServer: position, flags, calls made, deferred calls
    mem,        \* the block pool, the blocks in use and the Chain/Supply heap
    fetch,      \* Block.FetchRPC: the block, the node's answers, calls made
    api,        \* StreamOpTable: the request and the response
    lookup      \* Block.GetOpId: the block's ops, the position asked, the answer

builderVars == <<version, flows, results, block, parent, accounts, bakers,
                 conMap, err, pc, prev>>

crawlerVars == <<node, forks, store, head, cstate, target, anc, before,
                 pending, log, failures>>

extraVars == <<run, mem, fetch, api, lookup>>

-----------------------------------------------------------------------------
(* Bounds of the model *)

MaxFlows == 2       \* implicit flows per block
MaxN == 1           \* largest position-in-block (OpN) of an implicit flow
MaxItems == 2       \* regular ops, accounts and bakers of a block, together
MaxResults == 2     \* implicit operation results of a block
MaxBalanceUpdates == 2  \* balance updates of one implicit operation result
MaxHeight == 4      \* longest chain the node reports
MaxForks == 2       \* competing chains the node switches to
MaxFailures == 1    \* failed or cancelled commits

-----------------------------------------------------------------------------
(* Data *)

\* Protocol versions on both sides of the two version gates (9 and 12).
Versions == {8, 9, 12}

OPL_BLOCK_EVENTS == "block_events"
OPL_BLOCK_HEADER == "block_header"

RECURSIVE Pow2(_)
Pow2(n) == IF n = 0 THEN 1 ELSE 2 * Pow2(n - 1)

\* model.Op, restricted to the fields read or written by the modelled code.
\* Power is op.Raw.Meta().Power(); Dest classifies tx.Destination of op.Raw.
ZeroOp ==
    [Type |-> "none", OpN |-> 0, OpL |-> "none", OpP |-> 0, OpC |-> 0, OpI |-> 0,
     IsSuccess |-> FALSE, IsEvent |-> FALSE, IsInternal |-> FALSE,
     IsContract |-> FALSE, SenderId |-> 0, ReceiverId |-> 0,
     Volume |-> 0, Fee |-> 0, Reward |-> 0, Deposit |-> 0, Burned |-> 0,
     GasLimit |-> 0, GasUsed |-> 0, StoragePaid |-> 0,
     Power |-> 0, Dest |-> "none", HasParams |-> FALSE]

\* A nil entry of a []*model.Op.
NilOp == [Type |-> "nil"]

\* model.OpRef as built at the head of both loops.
OpRef(n, l, p, kind) == [N |-> n, L |-> l, P |-> p, Kind |-> kind]

\* model.NewEventOp(block, recv, id): a successful event op at the position the
\* reference names (the block gives it height, cycle and time, not modelled).
NewEventOp(recv, id) ==
    [ZeroOp EXCEPT !.Type = id.Kind, !.OpN = id.N, !.OpL = id.L, !.OpP = id.P,
                   !.IsSuccess = TRUE, !.IsEvent = TRUE, !.ReceiverId = recv]

\* model.Flow, restricted to the fields AppendImplicitEvents reads.
FlowShapes ==
    {[Operation |-> "invoice", Category |-> "balance", IsFee |-> FALSE,
      IsUnfrozen |-> FALSE, IsBurned |-> FALSE, Dir |-> "in"]}
    \cup {[Operation |-> "baking", Category |-> c, IsFee |-> FALSE,
           IsUnfrozen |-> FALSE, IsBurned |-> FALSE, Dir |-> "in"] :
            c \in {"deposits", "rewards", "balance"}}
    \cup {[Operation |-> "baking", Category |-> "balance", IsFee |-> TRUE,
           IsUnfrozen |-> FALSE, IsBurned |-> FALSE, Dir |-> "in"]}
    \cup {[Operation |-> "internal", Category |-> c, IsFee |-> FALSE,
           IsUnfrozen |-> TRUE, IsBurned |-> FALSE, Dir |-> "out"] :
            c \in {"deposits", "rewards", "fees"}}
    \cup {[Operation |-> "internal", Category |-> "balance", IsFee |-> FALSE,
           IsUnfrozen |-> FALSE, IsBurned |-> FALSE, Dir |-> "out"]}
    \cup {[Operation |-> "nonce_revelation", Category |-> c, IsFee |-> FALSE,
           IsUnfrozen |-> FALSE, IsBurned |-> TRUE, Dir |-> "out"] :
            c \in {"rewards", "fees", "balance"}}
    \cup {[Operation |-> "nonce_revelation", Category |-> "balance", IsFee |-> FALSE,
           IsUnfrozen |-> FALSE, IsBurned |-> TRUE, Dir |-> "in"]}
    \cup {[Operation |-> "nonce_revelation", Category |-> "rewards", IsFee |-> FALSE,
           IsUnfrozen |-> FALSE, IsBurned |-> FALSE, Dir |-> "in"]}
    \cup {[Operation |-> "bonus", Category |-> "balance", IsFee |-> FALSE,
           IsUnfrozen |-> FALSE, IsBurned |-> FALSE, Dir |-> "in"]}
    \cup {[Operation |-> "reward", Category |-> "balance", IsFee |-> FALSE,
           IsUnfrozen |-> FALSE, IsBurned |-> bb, Dir |-> "in"] : bb \in BOOLEAN}
    \cup {[Operation |-> "deposit", Category |-> c, IsFee |-> FALSE,
           IsUnfrozen |-> FALSE, IsBurned |-> FALSE, Dir |-> "in"] :
            c \in {"deposits", "balance"}}

\* A flow at position n belongs to the account of that position (one baker per
\* position: "only one flow per category per baker", "sum multiple flows per
\* category per baker"), account n + 1.
MkFlow(shape, n, amount) ==
    [OpN |-> n, Operation |-> shape.Operation, Category |-> shape.Category,
     AccountId |-> n + 1,
     AmountIn |-> IF shape.Dir = "in" THEN amount ELSE 0,
     AmountOut |-> IF shape.Dir = "out" THEN amount ELSE 0,
     IsFee |-> shape.IsFee, IsUnfrozen |-> shape.IsUnfrozen,
     IsBurned |-> shape.IsBurned]

\* The flow lists NewImplicitFlows can hand over: up to MaxFlows flows in
\* nondecreasing position order (line 31 of op_implicit.go sizes the op array
\* from the last flow, the largest position).  The i-th flow moves 2^(i-1), so
\* that a sum of amounts tells which flows went into it.  A list is chosen as
\* its length k and, per flow, a shape of `shapes` and a position.
IsFlowList(fs, shapes) ==
    \E k \in 0..MaxFlows :
        \E c \in [1..k -> shapes \X (0..MaxN)] :
            /\ \A i \in 1..k : \A j \in 1..k : i < j => c[i][2] <= c[j][2]
            /\ fs = [i \in 1..k |-> MkFlow(c[i][1], c[i][2], Pow2(i - 1))]

-----------------------------------------------------------------------------
(* Builder.AppendImplicitEvents, op_implicit.go:23-170 *)

\* The op reference of a flow's event, lines 39-43.
EventRef(f, kind) == OpRef(f.OpN, OPL_BLOCK_EVENTS, f.OpN, kind)

\* A fresh event op whose sender is the flow's account.
SenderEventOp(f, kind) ==
    [NewEventOp(f.AccountId, EventRef(f, kind)) EXCEPT !.SenderId = f.AccountId]

\* Variant of the invoice case without the protocol version gate of line 47.
InvoiceFlowUngated(ops, f, ver) ==
    IF ops[f.OpN] = NilOp
    THEN [ops EXCEPT ![f.OpN] =
            [SenderEventOp(f, "invoice") EXCEPT !.Reward = f.AmountIn]]
    ELSE ops

\* case model.FlowTypeInvoice, lines 45-54.
InvoiceFlow(ops, f, ver) ==
    IF ver >= 9 /\ ops[f.OpN] = NilOp
    THEN [ops EXCEPT ![f.OpN] =
            [SenderEventOp(f, "invoice") EXCEPT !.Reward = f.AmountIn]]
    ELSE ops

\* Variant of the category switch with the deposits and rewards targets
\* exchanged.
BakingCategorySwapped(op, f) ==
    CASE f.Category = "deposits" -> [op EXCEPT !.Reward = f.AmountIn]
      [] f.Category = "rewards" -> [op EXCEPT !.Deposit = f.AmountIn]
      [] f.Category = "balance" ->
            IF f.IsFee THEN [op EXCEPT !.Fee = @ + f.AmountIn]
            ELSE [op EXCEPT !.Reward = @ + f.AmountIn]
      [] OTHER -> op

\* The category switch of a baking flow, lines 62-76, on the op of its slot.
BakingCategory(op, f) ==
    CASE f.Category = "deposits" -> [op EXCEPT !.Deposit = f.AmountIn]
      [] f.Category = "rewards" -> [op EXCEPT !.Reward = f.AmountIn]
      [] f.Category = "balance" ->
            IF f.IsFee THEN [op EXCEPT !.Fee = @ + f.AmountIn]
            ELSE [op EXCEPT !.Reward = @ + f.AmountIn]
      [] OTHER -> op

\* case model.FlowTypeBaking, lines 55-76.
BakingFlow(ops, f) ==
    LET op == IF ops[f.OpN] = NilOp THEN SenderEventOp(f, "bake") ELSE ops[f.OpN]
    IN  [ops EXCEPT ![f.OpN] = BakingCategory(op, f)]

\* case model.FlowTypeInternal, lines 77-94.
InternalFlow(ops, f) ==
    IF f.IsUnfrozen
    THEN LET op == IF ops[f.OpN] = NilOp THEN SenderEventOp(f, "unfreeze")
                   ELSE ops[f.OpN]
         IN  [ops EXCEPT ![f.OpN] =
                CASE f.Category = "deposits" -> [op EXCEPT !.Deposit = @ + f.AmountOut]
                  [] f.Category = "rewards" -> [op EXCEPT !.Reward = @ + f.AmountOut]
                  [] f.Category = "fees" -> [op EXCEPT !.Fee = @ + f.AmountOut]
                  [] OTHER -> op]
    ELSE ops

\* case model.FlowTypeNonceRevelation, lines 95-114 (the seed slash op has no
\* sender).
NonceRevelationFlow(ops, f) ==
    IF f.IsBurned
    THEN LET op == IF ops[f.OpN] = NilOp
                   THEN NewEventOp(f.AccountId, EventRef(f, "seed_slash"))
                   ELSE ops[f.OpN]
         IN  [ops EXCEPT ![f.OpN] =
                CASE f.Category = "rewards" ->
                        [op EXCEPT !.Reward = @ + f.AmountOut,
                                   !.Burned = @ + f.AmountOut]
                  [] f.Category = "fees" ->
                        [op EXCEPT !.Fee = @ + f.AmountOut,
                                   !.Burned = @ + f.AmountOut]
                  [] f.Category = "balance" ->
                        [op EXCEPT !.Reward = @ + f.AmountIn,
                                   !.Burned = @ + f.AmountOut]
                  [] OTHER -> op]
    ELSE ops

\* case model.FlowTypeBonus, lines 115-125.
BonusFlow(ops, f) ==
    IF ops[f.OpN] = NilOp
    THEN [ops EXCEPT ![f.OpN] =
            [SenderEventOp(f, "bonus") EXCEPT !.Reward = f.AmountIn]]
    ELSE [ops EXCEPT ![f.OpN].Reward = @ + f.AmountIn]

\* case model.FlowTypeReward, lines 126-145.
RewardFlow(ops, f) ==
    IF ops[f.OpN] # NilOp THEN ops
    ELSE IF f.IsBurned
    THEN [ops EXCEPT ![f.OpN] =
            [SenderEventOp(f, "reward") EXCEPT !.Reward = f.AmountIn,
                                               !.Burned = f.AmountIn]]
    ELSE [ops EXCEPT ![f.OpN] =
            [SenderEventOp(f, "reward") EXCEPT !.Reward = f.AmountIn]]

\* case model.FlowTypeDeposit, lines 146-157.
DepositFlow(ops, f) ==
    IF f.Category = "deposits" /\ ops[f.OpN] = NilOp
    THEN [ops EXCEPT ![f.OpN] =
            [SenderEventOp(f, "deposit") EXCEPT !.Deposit = f.AmountIn]]
    ELSE ops

\* One round of the loop over the flows, lines 34-159; ops is the op array,
\* indexed from 0.
AssignFlow(ops, f, ver) ==
    IF f.OpN < 0 \/ f.OpN >= Cardinality(DOMAIN ops) THEN ops
    ELSE CASE f.Operation = "invoice" -> InvoiceFlow(ops, f, ver)
           [] f.Operation = "baking" -> BakingFlow(ops, f)
           [] f.Operation = "internal" -> InternalFlow(ops, f)
           [] f.Operation = "nonce_revelation" -> NonceRevelationFlow(ops, f)
           [] f.Operation = "bonus" -> BonusFlow(ops, f)
           [] f.Operation = "reward" -> RewardFlow(ops, f)
           [] f.Operation = "deposit" -> DepositFlow(ops, f)
           [] OTHER -> ops

RECURSIVE AssignFlows(_, _, _)
\* The whole loop, lines 34-159.
AssignFlows(ops, fs, ver) ==
    IF fs = <<>> THEN ops
    ELSE AssignFlows(AssignFlow(ops, Head(fs), ver), Tail(fs), ver)

RECURSIVE CompactFrom(_, _)
\* The ops of slots i, i+1, ... that are not nil, in slot order.
CompactFrom(ops, i) ==
    IF i >= Cardinality(DOMAIN ops) THEN <<>>
    ELSE (IF ops[i] = NilOp THEN <<>> ELSE <<ops[i]>>) \o CompactFrom(ops, i + 1)

\* Variant of the closing loop without its nil check: every slot is appended.
CompactOpsKeepNil(ops) == [i \in 1..Cardinality(DOMAIN ops) |-> ops[i - 1]]

\* The closing loop, lines 162-167: the ops to append, nil slots left out.
CompactOps(ops) == CompactFrom(ops, 0)

\* make([]*model.Op, flows[len(flows)-1].OpN+1), line 31.
MakeOps(fs) == [i \in 0..fs[Len(fs)].OpN |-> NilOp]

\* The block after AppendImplicitEvents, lines 23-170.
AppendImplicitEvents(b, fs, ver) ==
    IF Len(fs) = 0 THEN b
    ELSE [b EXCEPT !.Flows = @ \o fs,
                   !.Ops = @ \o CompactOps(AssignFlows(MakeOps(fs), fs, ver))]

-----------------------------------------------------------------------------
(* model.Block and Block.Update, block.go:371-560 *)

\* The aggregate counters Block.Update derives.
CounterNames ==
    {"NOpsApplied", "NOpsFailed", "NEvents", "NContractCalls", "NRollupCalls",
     "NTx", "Volume", "Fee", "Reward", "Deposit", "ActivatedSupply",
     "BurnedSupply", "MintedSupply", "SeenAccounts", "NewAccounts",
     "NewContracts", "ClearedAccounts", "FundedAccounts", "GasLimit", "GasUsed",
     "StoragePaid"}

\* A Block as AllocBlock and NewBlock hand it to the builder: no ops, no flows,
\* counters and flags zero.  Height is the block's level.
ZeroBlock ==
    [Height |-> 2, Ops |-> <<>>, Flows |-> <<>>,
     NOpsApplied |-> 0, NOpsFailed |-> 0, NEvents |-> 0, NContractCalls |-> 0,
     NRollupCalls |-> 0, NTx |-> 0, Volume |-> 0, Fee |-> 0, Reward |-> 0,
     Deposit |-> 0, ActivatedSupply |-> 0, BurnedSupply |-> 0, MintedSupply |-> 0,
     SeenAccounts |-> 0, NewAccounts |-> 0, NewContracts |-> 0,
     ClearedAccounts |-> 0, FundedAccounts |-> 0, GasLimit |-> 0, GasUsed |-> 0,
     StoragePaid |-> 0,
     HasProposals |-> FALSE, HasBallots |-> FALSE, HasSeeds |-> FALSE]

Counters(b) == [n \in CounterNames |-> b[n]]

\* Variant of the reset that leaves GasUsed as it was.
ResetCountersKeepGas(b) ==
    [b EXCEPT !.NOpsApplied = 0, !.NOpsFailed = 0, !.NEvents = 0,
              !.NContractCalls = 0, !.NRollupCalls = 0, !.NTx = 0, !.Volume = 0,
              !.Fee = 0, !.Reward = 0, !.Deposit = 0, !.ActivatedSupply = 0,
              !.BurnedSupply = 0, !.MintedSupply = 0, !.SeenAccounts = 0,
              !.NewAccounts = 0, !.NewContracts = 0, !.ClearedAccounts = 0,
              !.FundedAccounts = 0, !.GasLimit = 0, !.StoragePaid = 0]

\* Variant of the reset that leaves SeenAccounts as it was.
ResetCountersKeepSeen(b) ==
    [b EXCEPT !.NOpsApplied = 0, !.NOpsFailed = 0, !.NEvents = 0,
              !.NContractCalls = 0, !.NRollupCalls = 0, !.NTx = 0, !.Volume = 0,
              !.Fee = 0, !.Reward = 0, !.Deposit = 0, !.ActivatedSupply = 0,
              !.BurnedSupply = 0, !.MintedSupply = 0, !.NewAccounts = 0,
              !.NewContracts = 0, !.ClearedAccounts = 0, !.FundedAccounts = 0,
              !.GasLimit = 0, !.GasUsed = 0, !.StoragePaid = 0]

\* "initial state", lines 373-393.
ResetCounters(b) ==
    [b EXCEPT !.NOpsApplied = 0, !.NOpsFailed = 0, !.NEvents = 0,
              !.NContractCalls = 0, !.NRollupCalls = 0, !.NTx = 0, !.Volume = 0,
              !.Fee = 0, !.Reward = 0, !.Deposit = 0, !.ActivatedSupply = 0,
              !.BurnedSupply = 0, !.MintedSupply = 0, !.SeenAccounts = 0,
              !.NewAccounts = 0, !.NewContracts = 0, !.ClearedAccounts = 0,
              !.FundedAccounts = 0, !.GasLimit = 0, !.GasUsed = 0,
              !.StoragePaid = 0]

\* A count in which a successful event is an applied op as well.
CountOpEventApplied(b, op) ==
    LET g == [b EXCEPT !.GasLimit = @ + op.GasLimit, !.GasUsed = @ + op.GasUsed,
                       !.StoragePaid = @ + op.StoragePaid]
    IN  IF op.IsSuccess
        THEN IF op.IsEvent THEN [g EXCEPT !.NEvents = @ + 1, !.NOpsApplied = @ + 1]
             ELSE [g EXCEPT !.NOpsApplied = @ + 1]
        ELSE [g EXCEPT !.NOpsFailed = @ + 1]

\* Gas, storage and the success counters of one op, lines 398-410.
CountOp(b, op) ==
    LET g == [b EXCEPT !.GasLimit = @ + op.GasLimit, !.GasUsed = @ + op.GasUsed,
                       !.StoragePaid = @ + op.StoragePaid]
    IN  IF op.IsSuccess
        THEN IF op.IsEvent THEN [g EXCEPT !.NEvents = @ + 1]
             ELSE [g EXCEPT !.NOpsApplied = @ + 1]
        ELSE [g EXCEPT !.NOpsFailed = @ + 1]

\* case OpTypeTransaction, lines 460-480.
UpdateTransaction(b, op) ==
    LET t == [b EXCEPT !.Fee = @ + op.Fee, !.BurnedSupply = @ + op.Burned,
                       !.MintedSupply = @ + op.Reward]
    IN  IF op.IsSuccess /\ ~op.IsEvent
        THEN LET v == IF op.Dest = "zero"
                      THEN [t EXCEPT !.BurnedSupply = @ + op.Volume]
                      ELSE [t EXCEPT !.Volume = @ + op.Volume]
                 c == IF ~op.IsInternal /\ op.Dest = "contract" /\ op.HasParams
                      THEN [v EXCEPT !.NContractCalls = @ + 1]
                      ELSE v
             IN  IF ~op.IsInternal THEN [c EXCEPT !.NTx = @ + 1] ELSE c
        ELSE t

\* The switch over op.Type, lines 412-507 (endorsedSlots is summed apart).
UpdateType(b, op, ver) ==
    CASE op.Type = "bake" ->
            [b EXCEPT !.MintedSupply = @ + op.Reward, !.Reward = @ + op.Reward,
                      !.Deposit = @ + op.Deposit]
      [] op.Type = "bonus" ->
            [b EXCEPT !.MintedSupply = @ + op.Reward, !.Reward = @ + op.Reward]
      [] op.Type = "reward" ->
            [b EXCEPT !.MintedSupply = @ + op.Reward, !.BurnedSupply = @ + op.Burned]
      [] op.Type = "endorsement" -> [b EXCEPT !.MintedSupply = @ + op.Reward]
      [] op.Type = "nonce_revelation" ->
            [b EXCEPT !.HasSeeds = TRUE, !.MintedSupply = @ + op.Reward]
      [] op.Type \in {"airdrop", "invoice", "subsidy"} ->
            [b EXCEPT !.MintedSupply = @ + op.Reward]
      [] op.Type = "activation" ->
            IF op.IsSuccess
            THEN [b EXCEPT !.ActivatedSupply = @ + op.Volume, !.Volume = @ + op.Volume]
            ELSE b
      [] op.Type \in {"double_baking", "double_endorsement", "double_preendorsement"} ->
            [b EXCEPT !.BurnedSupply = @ + op.Burned]
      [] op.Type = "seed_slash" ->
            LET s == [b EXCEPT !.BurnedSupply = @ + op.Burned]
            IN  IF ver >= 12 THEN [s EXCEPT !.MintedSupply = @ + op.Reward] ELSE s
      [] op.Type = "transaction" -> UpdateTransaction(b, op)
      [] op.Type \in {"origination", "rollup_origination"} ->
            LET o == [b EXCEPT !.Fee = @ + op.Fee, !.BurnedSupply = @ + op.Burned]
            IN  IF op.IsSuccess THEN [o EXCEPT !.Volume = @ + op.Volume] ELSE o
      [] op.Type \in {"delegation", "reveal", "deposits_limit"} ->
            [b EXCEPT !.Fee = @ + op.Fee]
      [] op.Type = "register_constant" ->
            [b EXCEPT !.Fee = @ + op.Fee, !.BurnedSupply = @ + op.Burned]
      [] op.Type = "proposal" -> [b EXCEPT !.HasProposals = TRUE]
      [] op.Type = "ballot" -> [b EXCEPT !.HasBallots = TRUE]
      [] op.Type = "rollup_transaction" ->
            LET r == [b EXCEPT !.Fee = @ + op.Fee, !.BurnedSupply = @ + op.Burned]
            IN  IF op.IsSuccess
                THEN [r EXCEPT !.Volume = @ + op.Volume, !.NRollupCalls = @ + 1]
                ELSE r
      [] OTHER -> b

RECURSIVE UpdateOps(_, _, _)
\* The loop over b.Ops, lines 397-508.
UpdateOps(b, ops, ver) ==
    IF ops = <<>> THEN b
    ELSE UpdateOps(UpdateType(CountOp(b, Head(ops)), Head(ops), ver), Tail(ops), ver)

RECURSIVE EndorsedSlots(_)
\* endorsedSlots at the end of the loop, lines 395 and 430-432.
EndorsedSlots(ops) ==
    IF ops = <<>> THEN 0
    ELSE (IF Head(ops).Type = "endorsement" THEN Head(ops).Power ELSE 0)
         + EndorsedSlots(Tail(ops))

\* The funded transition of an account seen at this height, lines 527-538
\* and 547-558.
CountSeen(b, acc) ==
    IF acc.LastSeen = b.Height
    THEN LET s == [b EXCEPT !.SeenAccounts = @ + 1]
         IN  IF ~acc.IsFunded
             THEN IF acc.WasFunded THEN [s EXCEPT !.ClearedAccounts = @ + 1] ELSE s
             ELSE IF ~acc.WasFunded THEN [s EXCEPT !.FundedAccounts = @ + 1] ELSE s
    ELSE b

\* One round of the loop over accounts, lines 515-539.
UpdateAccount(b, acc) ==
    IF acc.IsNew /\ acc.IsDirty
    THEN IF acc.IsBaker THEN b
         ELSE IF acc.IsContract
         THEN CountSeen([b EXCEPT !.NewContracts = @ + 1], acc)
         ELSE CountSeen([b EXCEPT !.NewAccounts = @ + 1], acc)
    ELSE CountSeen(b, acc)

\* One round of the loop over bakers, lines 542-559.
UpdateBaker(b, bkr) ==
    IF bkr.Account.IsNew
    THEN CountSeen([b EXCEPT !.NewAccounts = @ + 1], bkr.Account)
    ELSE CountSeen(b, bkr.Account)

RECURSIVE UpdateAccounts(_, _)
UpdateAccounts(b, accs) ==
    IF accs = <<>> THEN b
    ELSE UpdateAccounts(UpdateAccount(b, Head(accs)), Tail(accs))

RECURSIVE UpdateBakers(_, _)
UpdateBakers(b, bkrs) ==
    IF bkrs = <<>> THEN b
    ELSE UpdateBakers(UpdateBaker(b, Head(bkrs)), Tail(bkrs))

\* The block after Block.Update, lines 371-560.
Update(b, accs, bkrs, ver) ==
    UpdateBakers(UpdateAccounts(UpdateOps(ResetCounters(b), b.Ops, ver), accs), bkrs)

\* Block.Update adding the block's endorsed slots to what the parent holds.
UpdateParentAccumulate(par, b) ==
    IF par.Exists THEN [par EXCEPT !.NSlotsEndorsed = @ + EndorsedSlots(b.Ops)]
    ELSE par

\* b.Parent after Block.Update, lines 510-512.
UpdateParent(par, b) ==
    IF par.Exists THEN [par EXCEPT !.NSlotsEndorsed = EndorsedSlots(b.Ops)] ELSE par

-----------------------------------------------------------------------------
(* Inputs of Block.Update *)

OpTypes ==
    {"bake", "bonus", "reward", "endorsement", "nonce_revelation", "airdrop",
     "invoice", "subsidy", "activation", "double_baking", "double_endorsement",
     "double_preendorsement", "seed_slash", "transaction", "origination",
     "rollup_origination", "delegation", "reveal", "deposits_limit",
     "register_constant", "proposal", "ballot", "rollup_transaction",
     "unfreeze", "deposit"}

\* An op of the block's operation lists.  Each monetary field holds its own
\* power of two, so that a counter tells which fields went into it.
RegularOp(type, success, event, internal, dest, params) ==
    [ZeroOp EXCEPT !.Type = type, !.OpL = "managers",
                   !.IsSuccess = success, !.IsEvent = event,
                   !.IsInternal = internal, !.Dest = dest, !.HasParams = params,
                   !.Volume = 1, !.Fee = 2, !.Reward = 4, !.Deposit = 8,
                   !.Burned = 16, !.GasLimit = 32, !.GasUsed = 64,
                   !.StoragePaid = 128, !.Power = 3]

\* Events are always successful (NewEventOp).
RegularOps ==
    {RegularOp(t, se[1], se[2], FALSE, "none", FALSE) :
        t \in OpTypes \ {"transaction"},
        se \in {<<TRUE, FALSE>>, <<FALSE, FALSE>>, <<TRUE, TRUE>>}}
    \cup {RegularOp("transaction", se[1], se[2], FALSE, "implicit", FALSE) :
            se \in {<<FALSE, FALSE>>, <<TRUE, TRUE>>}}
    \cup {RegularOp("transaction", TRUE, FALSE, i, d, p) :
            i \in BOOLEAN, d \in {"zero", "contract", "implicit"}, p \in BOOLEAN}

\* model.Account, restricted to the fields Block.Update reads; LastSeen is the
\* block's height or the height before it.
\* A baker is no contract.
AccountSet ==
    {a \in [IsNew : BOOLEAN, IsDirty : BOOLEAN, IsBaker : BOOLEAN,
            IsContract : BOOLEAN,
            LastSeen : {ZeroBlock.Height - 1, ZeroBlock.Height},
            IsFunded : BOOLEAN, WasFunded : BOOLEAN] :
        ~(a.IsBaker /\ a.IsContract)}

\* model.Baker: an account, always a baker and never a contract.
BakerSet ==
    {[Account |-> a] :
        a \in {x \in AccountSet : x.IsBaker /\ x.IsDirty}}

NoParent == [Exists |-> FALSE, NSlotsEndorsed |-> 0]

\* Block.NextN, lines 263-269.
NextN(b) == IF Len(b.Ops) > 0 THEN b.Ops[Len(b.Ops)].OpN + 1 ELSE 0

-----------------------------------------------------------------------------
(* Builder.AppendImplicitBlockOps, op_implicit.go:175-286 *)

\* Addresses of balance updates and originated contracts.  "kt1_a" and "kt1_b"
\* are accounts the builder knows, "kt1_new" is well-formed and unknown, and
\* "" is the invalid address of an update that names no contract.
KnownAddresses == {"kt1_a", "kt1_b"}

\* b.AccountByAddress(addr): the row id of a known account.
AccountByAddress(addr) == IF addr = "kt1_a" THEN 1 ELSE 2

\* Accounts whose contract is in storage before the block; the contract of
\* another account loads only after this block has registered it in conMap.
StoredContracts == {AccountByAddress("kt1_a")}

\* b.LoadContractByAccountId(ctx, id) succeeds.
ContractLoads(cm, id) == id \in cm \cup StoredContracts

\* A balance update of an implicit operation result: v.Kind, v.Address(),
\* v.Amount().  A minted or burned update names no contract.
ContractUpdates ==
    [Kind : {"contract"}, Address : KnownAddresses \cup {"kt1_new"}, Amount : {0, 1}]

SupplyUpdate(kind) == [Kind |-> kind, Address |-> "", Amount |-> 1]

\* An implicit operation result.  Script is "given" (op.Script # nil), "rpc"
\* (nil, and GetContractScript returns it) or "rpc_error" (nil, and
\* GetContractScript fails).
MkResult(kind, addr, script, updates) ==
    [Kind |-> kind, OriginatedContract |-> addr, Script |-> script,
     BalanceUpdates |-> updates, Gas |-> 64, PaidStorageSizeDiff |-> 128]

\* The results one block can carry: the origination of "kt1_b" with at most
\* one balance update (a credit of the new contract, or a minted or burned
\* update), the origination of an unknown contract, a transaction with up to
\* MaxBalanceUpdates balance updates, or a result of another kind.
ResultSet ==
    {MkResult("origination", "kt1_b", sc, u) :
        sc \in {"given", "rpc", "rpc_error"},
        u \in {<<>>, <<[Kind |-> "contract", Address |-> "kt1_b", Amount |-> 1]>>,
               <<SupplyUpdate("minted")>>, <<SupplyUpdate("burned")>>}}
    \cup {MkResult("origination", "kt1_new", "given", <<>>)}
    \cup UNION {{MkResult("transaction", "", "given", u) :
                    u \in [1..k -> ContractUpdates \cup {SupplyUpdate("minted")}]} :
                k \in 0..MaxBalanceUpdates}
    \cup {MkResult("reveal", "", "given", <<>>)}

\* b.NewSubsidyFlow(dst, amount, id): a balance flow into the account at the
\* op's position.
NewSubsidyFlow(dst, amount, id) ==
    [OpN |-> id.N, Operation |-> "subsidy", Category |-> "balance",
     AccountId |-> dst, AmountIn |-> amount, AmountOut |-> 0,
     IsFee |-> FALSE, IsUnfrozen |-> FALSE, IsBurned |-> FALSE]

\* The builder state AppendImplicitBlockOps works on.
BuildState(b, cm, e) == [block |-> b, conMap |-> cm, err |-> e]

RECURSIVE OriginationUpdates(_, _, _, _)
\* The loop over the balance updates of an origination, lines 236-244: the op
\* o and the block's flows after it.
OriginationUpdates(o, fl, us, id) ==
    IF us = <<>> THEN [op |-> o, flows |-> fl]
    ELSE LET v == Head(us)
         IN  IF v.Kind \in {"minted", "burned"}
             THEN OriginationUpdates(o, fl, Tail(us), id)
             ELSE OriginationUpdates(
                    [o EXCEPT !.Volume = @ + v.Amount],
                    Append(fl, NewSubsidyFlow(o.ReceiverId, v.Amount, id)),
                    Tail(us), id)

\* case tezos.OpTypeOrigination, lines 190-250.
ImplicitOrigination(st, op, id) ==
    IF op.OriginatedContract \notin KnownAddresses
    THEN [st EXCEPT !.err = "missing originated contract"]
    ELSE IF op.Script = "rpc_error"
    THEN [st EXCEPT !.err = "loading contract script"]
    ELSE LET dst == AccountByAddress(op.OriginatedContract)
             o == [NewEventOp(dst, [id EXCEPT !.Kind = "origination"])
                     EXCEPT !.IsContract = TRUE, !.GasUsed = op.Gas,
                            !.StoragePaid = op.PaidStorageSizeDiff]
             r == OriginationUpdates(o, st.block.Flows, op.BalanceUpdates, id)
         IN  [st EXCEPT !.block.Flows = r.flows,
                        !.block.Ops = Append(@, r.op),
                        !.conMap = @ \cup {dst}]

\* The op of one balance update of a transaction result, lines 266-277.
SubsidyOp(dst, v, op, id) ==
    [NewEventOp(dst, [id EXCEPT !.Kind = "subsidy"])
        EXCEPT !.IsContract = TRUE, !.Volume = v.Amount, !.Reward = v.Amount,
               !.GasUsed = op.Gas, !.StoragePaid = op.PaidStorageSizeDiff]

RECURSIVE ImplicitTransaction(_, _, _, _)
\* case tezos.OpTypeTransaction, lines 252-282: the loop over the balance
\* updates us of the result op, all of them under the one reference id.
ImplicitTransaction(st, op, us, id) ==
    IF us = <<>> THEN st
    ELSE LET v == Head(us)
         IN  IF v.Address = "" THEN ImplicitTransaction(st, op, Tail(us), id)
             ELSE IF v.Address \notin KnownAddresses
             THEN [st EXCEPT !.err = "missing account"]
             ELSE IF ~ContractLoads(st.conMap, AccountByAddress(v.Address))
             THEN [st EXCEPT !.err = "loading contract"]
             ELSE LET dst == AccountByAddress(v.Address)
                      o == SubsidyOp(dst, v, op, id)
                      fl == IF o.Volume > 0
                            THEN Append(st.block.Flows,
                                        NewSubsidyFlow(dst, o.Volume, id))
                            ELSE st.block.Flows
                  IN  ImplicitTransaction(
                        [st EXCEPT !.block.Ops = Append(@, o), !.block.Flows = fl],
                        op, Tail(us), id)

\* The op reference of an implicit operation result, lines 183-188.
HeaderRef(b) == OpRef(NextN(b), OPL_BLOCK_HEADER, NextN(b), "none")

\* One round of the loop over the implicit operation results, lines 176-284.
ImplicitResult(st, op) ==
    CASE op.Kind = "origination" -> ImplicitOrigination(st, op, HeaderRef(st.block))
      [] op.Kind = "transaction" ->
            ImplicitTransaction(st, op, op.BalanceUpdates, HeaderRef(st.block))
      [] OTHER -> st

RECURSIVE AppendImplicitBlockOpsContinue(_, _)
\* A loop over the implicit operation results that goes on after an error and
\* returns the first one.
AppendImplicitBlockOpsContinue(st, rs) ==
    IF rs = <<>> THEN st
    ELSE LET next == ImplicitResult([st EXCEPT !.err = ""], Head(rs))
             rest == AppendImplicitBlockOpsContinue(next, Tail(rs))
         IN  [rest EXCEPT !.err = IF st.err # "" THEN st.err
                                  ELSE IF next.err # "" THEN next.err ELSE @]

RECURSIVE AppendImplicitBlockOps(_, _)
\* The builder after AppendImplicitBlockOps, lines 175-286: the first error
\* ends the call.
AppendImplicitBlockOps(st, rs) ==
    IF rs = <<>> THEN st
    ELSE LET next == ImplicitResult(st, Head(rs))
         IN  IF next.err # "" THEN next
             ELSE AppendImplicitBlockOps(next, Tail(rs))

-----------------------------------------------------------------------------
(* Chain synchronisation: the node's chain, the committed block rows and the
   persisted head pointer.  The crawler and the indexer follow sections 4.3
   and 4.4 of the design; what a build does to a block and to its parent is
   Block.Update, and what a rollback does to them is Block.Rollback. *)

\* The deepest fork the crawler rolls back (design 4.4, step 4).
MaxReorgDepth == 2

\* Endorsing power carried by the endorsements of one block.
Powers == {1, 2}

\* A block hash: the height and the chain that produced the block.
BlockHash(h, chain) == <<h, chain>>

\* A raw block as the node reports it.
RawBlock(h, chain, parentHash, power) ==
    [Hash |-> BlockHash(h, chain), Parent |-> parentHash, Power |-> power]

Genesis == RawBlock(1, 0, BlockHash(0, 0), 0)

\* The operations of a raw block: its endorsements.
RawOps(raw) ==
    IF raw.Power = 0 THEN <<>>
    ELSE <<[RegularOp("endorsement", TRUE, FALSE, FALSE, "none", FALSE)
                EXCEPT !.OpL = "endorsements", !.Power = raw.Power]>>

\* The block the builder makes of a raw block: NewBlock, the block's ops,
\* then Block.Update.
BuildBlock(raw, h, ver) ==
    Update([ZeroBlock EXCEPT !.Height = h, !.Ops = RawOps(raw)], <<>>, <<>>, ver)

\* The row of the blocks table for a built block.  NewBlock leaves the block's
\* own NSlotsEndorsed at zero; the build of its child sets it.
BlockRow(raw, b) ==
    [Height |-> b.Height, Hash |-> raw.Hash, ParentHash |-> raw.Parent,
     NSlotsEndorsed |-> 0, NOpsApplied |-> b.NOpsApplied,
     MintedSupply |-> b.MintedSupply]

GenesisRow == BlockRow(Genesis, BuildBlock(Genesis, 1, 12))

\* The parent's row after the build of its child b: Block.Update writes
\* b.Parent.NSlotsEndorsed, lines 510-512.
ParentAfterBuild(row, b) ==
    [row EXCEPT !.NSlotsEndorsed =
        UpdateParent([Exists |-> TRUE, NSlotsEndorsed |-> row.NSlotsEndorsed],
                     b).NSlotsEndorsed]

\* Block.Rollback, lines 562-564: "block will be deleted, nothing to do".
\* The parent's row is left as the build of the rolled-back block wrote it.
Rollback(parentRow, row) == parentRow

\* The persisted state: block rows and head pointer.
Persisted(rows, ptr) == [store |-> rows, head |-> ptr]

HeadOf(row) == [Height |-> row.Height, Hash |-> row.Hash]

\* A failed or cancelled Indexer.Commit that leaves the head pointer advanced.
CommitAbortedHeadAdvanced(st, tx) == Persisted(st.store, HeadOf(tx.Block))

\* Indexer.Commit that fails on a table write or is cancelled: nothing of the
\* transaction is visible.
CommitAborted(st, tx) == st

\* Indexer.Commit: the block's rows are written, the parent's row is updated
\* and the head pointer advances, as one unit.
Commit(st, tx) ==
    Persisted(Append([st.store EXCEPT ![Len(st.store)] = tx.Parent], tx.Block),
              HeadOf(tx.Block))

\* Indexer.Rollback of the block at the head: its row is deleted and the head
\* pointer moves to its parent.
IndexerRollback(st) ==
    LET h == st.head.Height
        rows == SubSeq(st.store, 1, h - 1)
    IN  Persisted([rows EXCEPT ![h - 1] = Rollback(@, st.store[h])],
                  HeadOf(st.store[h - 1]))

\* The highest height up to which the reported chain and the indexed chain
\* carry the same hashes.
CommonAncestor(chain, rows) ==
    LET both == 1..(IF Len(chain) < Len(rows) THEN Len(chain) ELSE Len(rows))
        same == {h \in both : \A g \in 1..h : chain[g].Hash = rows[g].Hash}
    IN  IF same = {} THEN 0 ELSE CHOOSE h \in same : \A g \in same : g <= h

\* The log of indexer and builder calls.
Call(name, h, hash) == [Call |-> name, Height |-> h, Hash |-> hash]

\* A build may start during the rollback of a fork.
CanBuildEarly ==
    /\ cstate \in {"running", "rollback"}
    /\ pending = <<>>
    /\ head.Height < Len(target)

\* The crawler builds the next block only when it is running, nothing awaits
\* its commit and the chain it follows has a block above the head.
CanBuild ==
    /\ cstate = "running"
    /\ pending = <<>>
    /\ head.Height < Len(target)

\* No chain synchronisation: the builder works on one block.
CrawlerIdle ==
    /\ node = <<Genesis>>
    /\ forks = 0
    /\ store = <<GenesisRow>>
    /\ head = HeadOf(GenesisRow)
    /\ cstate = "running"
    /\ target = <<Genesis>>
    /\ anc = 0
    /\ before = <<>>
    /\ pending = <<>>
    /\ log = <<>>
    /\ failures = 0

-----------------------------------------------------------------------------
(* Block.FetchRPC, etl/model/block.go lines 193-240.  The block carries what
   the function reads: whether its hash is valid, its bundle (TZ is "nil", an
   "empty" bundle without raw block, or a bundle with the raw "block"),
   whether it has params, its height and its cycle. *)

MaxFetchHeight == 7     \* largest block height of a fetched block
MaxFetches == 2         \* calls of FetchRPC on one block

\* Blocks per cycle and preserved cycles of the chain's params; the look-ahead
\* of 5 is the one the code names at line 224.
BlocksPerCycle == 2
PreservedCycles == 5

\* tezos.Params.CycleStartHeight(c) and IsCycleStart(h): cycle c starts at
\* height c * BlocksPerCycle + 1.
CycleStartHeight(c) == c * BlocksPerCycle + 1

IsCycleStart(h) == h > 0 /\ (h - 1) % BlocksPerCycle = 0

CycleOf(h) == IF h > 0 THEN (h - 1) \div BlocksPerCycle ELSE 0

FetchBlockOf(valid, tz, params, h) ==
    [HashValid |-> valid, TZ |-> tz, HasParams |-> params, Height |-> h,
     Cycle |-> CycleOf(h)]

\* What the node answers to each kind of call: TRUE = success.
NodeAnswers == [GetBlock : BOOLEAN, GetConstants : BOOLEAN, Rights : BOOLEAN]

RpcCall(name, arg) == [Name |-> name, Arg |-> arg]

FetchState(b, calls, e) == [block |-> b, calls |-> calls, err |-> e]

\* Rights are fetched from cycle 1 on.
FetchesRightsFromCycle1(b) ==
    b.Height >= CycleStartHeight(1) /\ IsCycleStart(b.Height)

\* The condition of line 225.
FetchesRights(b) ==
    b.Height >= CycleStartHeight(2) /\ IsCycleStart(b.Height)

\* A failed GetBlock that does not end the call.
FetchBlockIgnoreError(st, nd) ==
    IF st.block.TZ = "block" THEN st
    ELSE FetchState([st.block EXCEPT !.TZ = IF nd.GetBlock THEN "block" ELSE "empty"],
                    Append(st.calls, RpcCall("GetBlock", st.block.Height)), "")

\* Lines 198-206: the bundle is made if missing, the raw block fetched if
\* missing.
FetchBlock(st, nd) ==
    IF st.block.TZ = "block" THEN st
    ELSE LET calls == Append(st.calls, RpcCall("GetBlock", st.block.Height))
         IN  IF nd.GetBlock
             THEN FetchState([st.block EXCEPT !.TZ = "block"], calls, "")
             ELSE FetchState([st.block EXCEPT !.TZ = "empty"], calls, "GetBlock")

\* Lines 207-223: the params are fetched if missing, from the node's constants
\* above height 0 and from the defaults at height 0.
FetchParams(st, nd) ==
    IF st.err # "" \/ st.block.HasParams THEN st
    ELSE IF st.block.Height > 0
    THEN LET calls == Append(st.calls, RpcCall("GetConstants", st.block.Height))
         IN  IF nd.GetConstants
             THEN FetchState([st.block EXCEPT !.HasParams = TRUE], calls, "")
             ELSE FetchState(st.block, calls, "block init: GetConstants")
    ELSE FetchState([st.block EXCEPT !.HasParams = TRUE], st.calls, "")

\* Lines 224-238: rights of cycle b.Cycle + PreservedCycles.
FetchRights(st, nd) ==
    IF st.err # "" \/ ~FetchesRights(st.block) THEN st
    ELSE FetchState(st.block,
                    Append(st.calls, RpcCall("FetchRightsByCycle",
                                             st.block.Cycle + PreservedCycles)),
                    IF nd.Rights THEN "" ELSE "FetchRightsByCycle")

\* Block.FetchRPC, lines 193-240.
FetchRPC(b, nd) ==
    IF ~b.HashValid THEN FetchState(b, <<>>, "invalid block hash")
    ELSE FetchRights(FetchParams(FetchBlock(FetchState(b, <<>>, ""), nd), nd), nd)

FetchIdle ==
    [pc |-> "idle", n |-> 0, block |-> FetchBlockOf(FALSE, "nil", FALSE, 0),
     was |-> FetchBlockOf(FALSE, "nil", FALSE, 0),
     node |-> [GetBlock |-> TRUE, GetConstants |-> TRUE, Rights |-> TRUE],
     calls |-> <<>>, err |-> ""]

\* b.FetchRPC(ctx, c), against a node that answers each call or fails it.
DoFetchRPC ==
    /\ fetch.pc \in {"ready", "done"}
    /\ fetch.n < MaxFetches
    /\ \E nd \in NodeAnswers :
        LET st == FetchRPC(fetch.block, nd)
        IN  fetch' = [pc |-> "done", n |-> fetch.n + 1, block |-> st.block,
                      was |-> fetch.block, node |-> nd, calls |-> st.calls,
                      err |-> st.err]
    /\ UNCHANGED <<run, mem, api, lookup>>
    /\ UNCHANGED <<builderVars, crawlerVars>>

\* Lines 296-300 of Block.Clean: with a bundle, b.TZ.Block.Operations is read
\* and written through b.TZ.Block; on a bundle without raw block that is a nil
\* pointer dereference.
CleanFaults(tz) == tz = "empty"

\* b.Clean() on the block FetchRPC has worked on.
DoCleanFetched ==
    /\ fetch.pc = "done"
    /\ fetch' = [fetch EXCEPT
                    !.pc = IF CleanFaults(fetch.block.TZ) THEN "fault" ELSE "cleaned"]
    /\ UNCHANGED <<run, mem, api, lookup>>
    /\ UNCHANGED <<builderVars, crawlerVars>>

-----------------------------------------------------------------------------
(* The block pool: AllocBlock, NewBlock, Free, Reset (etl/model/block.go lines
   107-172 and 278-369).  mem.objs are the Block objects ever made, mem.meta
   says where each one is ("pool", "live" with a caller, or "lost": taken from
   the pool and neither handed out nor put back).  Chain and Supply are cells
   of mem.heap; a reference is a cell's index, 0 is nil.  TZ is <<>> (nil) or
   holds the bundle. *)

MaxBlocks == 2      \* Block objects
MaxNews == 2        \* calls of NewBlock
MaxWrites == 1      \* writes to one Chain or Supply
MaxTime == 9        \* latest block timestamp, in ticks
MaxPasses == 2      \* calls of Clean and Reset on a block in use

\* The fields of Block the builder section does not carry, lines 33-88.
OtherZero ==
    [RowId |-> 0, ParentId |-> 0, Hash |-> "", Cycle |-> 0,
     IsCycleSnapshot |-> 0, Timestamp |-> 0, Solvetime |-> 0, Version |-> 0,
     Round |-> 0, Nonce |-> 0, VotingPeriodKind |-> 0, BakerId |-> 0,
     ProposerId |-> 0, NSlotsEndorsed |-> 0, LbEscapeVote |-> 0,
     LbEscapeEma |-> 0, ProposerConsensusKeyId |-> 0,
     BakerConsensusKeyId |-> 0, TZ |-> <<>>, Params |-> 0, Chain |-> 0,
     Supply |-> 0, Baker |-> 0, Proposer |-> 0, Parent |-> 0,
     AbsentBaker |-> 0, AbsentEndorsers |-> <<>>]

\* A Block the pool makes when it is empty: the zero value of the struct.
NewObject == [ZeroBlock EXCEPT !.Height = 0] @@ OtherZero

\* Lines 305-344 and 364-367 of Reset.
ResetScalars(b) ==
    [ResetCounters(b) EXCEPT
        !.RowId = 0, !.ParentId = 0, !.Hash = "invalid", !.Height = 0,
        !.Cycle = 0, !.IsCycleSnapshot = 0, !.Timestamp = 0, !.Solvetime = 0,
        !.Version = 0, !.Round = 0, !.Nonce = 0, !.VotingPeriodKind = 0,
        !.BakerId = 0, !.ProposerId = 0, !.NSlotsEndorsed = 0,
        !.LbEscapeVote = 0, !.LbEscapeEma = 0, !.ProposerConsensusKeyId = 0,
        !.BakerConsensusKeyId = 0, !.HasProposals = FALSE,
        !.HasBallots = FALSE, !.HasSeeds = FALSE, !.AbsentBaker = 0]

\* A reset that leaves the parent reference.
ResetRefsKeepParent(b) ==
    [b EXCEPT !.TZ = <<>>, !.Params = 0, !.Chain = 0, !.Supply = 0,
              !.Baker = 0, !.Proposer = 0, !.AbsentEndorsers = <<>>]

\* Lines 345-351 and 368 of Reset.
ResetRefs(b) ==
    [b EXCEPT !.TZ = <<>>, !.Params = 0, !.Chain = 0, !.Supply = 0,
              !.Baker = 0, !.Proposer = 0, !.Parent = 0,
              !.AbsentEndorsers = <<>>]

\* A reset that leaves the ops in the block.
ResetChildrenKeepOps(b) == [b EXCEPT !.Flows = <<>>]

\* Lines 352-363 of Reset: every op and flow is freed, the lists are emptied.
ResetChildren(b) == [b EXCEPT !.Ops = <<>>, !.Flows = <<>>]

\* Block.Reset, lines 304-369.
Reset(b) == ResetChildren(ResetRefs(ResetScalars(b)))

\* Block.Rollback(accounts, bakers), lines 562-564: nothing is done.
RollbackBlock(b) == b

\* A new cell that shares the source's cell when there is one.
AllocShared(heap, src) ==
    [heap |-> Append(heap, 0), ref |-> IF src # 0 THEN src ELSE Len(heap) + 1]

\* b.Chain = &Chain{} and *b.Chain = *parent.Chain, lines 119-120, 163-168: a
\* new cell that holds a copy of the source's value, zero without source.
AllocCopy(heap, src) ==
    [heap |-> Append(heap, IF src # 0 THEN heap[src] ELSE 0),
     ref |-> Len(heap) + 1]

\* A time.Time is a count of ticks, TicksPerSecond to the second, so that two
\* timestamps can be a fraction of a second apart; a time.Duration is a
\* difference of ticks.  All timestamps lie within the range of Duration.
TicksPerSecond == 2

\* Blocks are one and a half seconds apart.
TicksPerBlock == 3

\* Go's integer division: the quotient is truncated toward zero.
Quo(a, b) == IF a >= 0 THEN a \div b ELSE -((-a) \div b)

\* util.Max(a, b) on ints.
UtilMax(a, b) == IF a >= b THEN a ELSE b

\* Variant of line 162 without the floor at zero.
SolvetimeNoFloor(ts, parentTs) == Quo(ts - parentTs, TicksPerSecond)

\* Line 162: util.Max(0, int(b.Timestamp.Sub(parent.Timestamp)/time.Second)).
Solvetime(ts, parentTs) == UtilMax(0, Quo(ts - parentTs, TicksPerSecond))

\* The implicit flows of a raw block.
BundleFlows ==
    {<<>>,
     <<MkFlow([Operation |-> "baking", Category |-> "rewards", IsFee |-> FALSE,
               IsUnfrozen |-> FALSE, IsBurned |-> FALSE, Dir |-> "in"], 0, 1)>>}

\* A touched account of a raw block.
BundleAccounts ==
    {<<>>,
     <<[IsNew |-> TRUE, IsDirty |-> TRUE, IsBaker |-> FALSE, IsContract |-> FALSE,
        LastSeen |-> 1, IsFunded |-> TRUE, WasFunded |-> FALSE]>>}

\* rpc.Bundle: with or without raw block; the raw block's level, protocol
\* version and voting period kind (0 = invalid), and what the builder derives
\* from it.
Bundle(has, h, voting, fl, accs) ==
    [HasBlock |-> has, Height |-> h, Version |-> 12, Voting |-> voting,
     Time |-> h * TicksPerBlock, Flows |-> fl, Accounts |-> accs]

\* The bundles of the blocks at levels 1 and 2, and a bundle without raw
\* block.  The block at level 1 has no valid voting period ("like on block 0
\* and 1", line 148); a block has either neither flows nor accounts or both.
Bundles ==
    {Bundle(TRUE, h, IF h <= 1 THEN 0 ELSE 2, fa[1], fa[2]) :
        h \in {1, 2}, fa \in {<<fl, accs>> \in BundleFlows \X BundleAccounts :
                                (fl = <<>>) <=> (accs = <<>>)}}
    \cup {Bundle(FALSE, 0, 0, <<>>, <<>>)}

VotingPeriodProposal == 1

\* Lines 117-169 of NewBlock on the object b: the fields it assigns.  par is
\* <<>> or holds the parent object, chain and supply are the new cells.
InitBlock(b, tz, parentId, par, chain, supply) ==
    [b EXCEPT
        !.TZ = <<tz>>, !.Params = 1, !.Chain = chain, !.Supply = supply,
        !.Height = tz.Height, !.Cycle = CycleOf(tz.Height), !.Timestamp = tz.Time,
        !.Hash = "hash", !.Round = 0, !.LbEscapeVote = 0, !.LbEscapeEma = 0,
        !.Version = IF tz.Height <= 1 THEN tz.Version - 1 ELSE tz.Version,
        !.VotingPeriodKind =
            IF tz.Voting # 0 THEN tz.Voting
            ELSE IF par # <<>> THEN par[1].VotingPeriodKind
            ELSE VotingPeriodProposal,
        !.ParentId = IF par # <<>> THEN par[1].RowId ELSE @,
        !.Parent = IF par # <<>> THEN parentId ELSE @,
        !.Solvetime = IF par # <<>> THEN Solvetime(tz.Time, par[1].Timestamp)
                      ELSE @]

\* made counts the ops and flows made for the block in its present use, frees
\* the calls of Op.Free and Flow.Free on them, passes the calls of Clean, Reset
\* and Free on the block.
MetaOf(state, uses) ==
    [state |-> state, uses |-> uses, built |-> FALSE, inputs |-> <<>>,
     born |-> [Chain |-> 0, Supply |-> 0], writes |-> [Chain |-> 0, Supply |-> 0],
     made |-> 0, frees |-> 0, passes |-> 0]

\* mem.children counts the Op and Flow objects handed out and not yet freed.
MemIdle ==
    [objs |-> <<>>, meta |-> <<>>, heap |-> <<>>, news |-> 0, saved |-> <<>>,
     children |-> 0, err |-> ""]

Live(m) == {i \in 1..Len(m.objs) : m.meta[i].state = "live"}

Pooled(m) == {i \in 1..Len(m.objs) : m.meta[i].state = "pool"}

\* blockPool.Get(): an object of the pool, or a new one.
Gettable(m) ==
    Pooled(m) \cup (IF Len(m.objs) < MaxBlocks THEN {Len(m.objs) + 1} ELSE {})

\* AllocBlock, lines 107-109: the object id leaves the pool.
AllocBlock(m, id) ==
    IF id > Len(m.objs)
    THEN [m EXCEPT !.objs = Append(@, NewObject),
                   !.meta = Append(@, MetaOf("lost", 1))]
    ELSE [m EXCEPT !.meta[id] = MetaOf("lost", m.meta[id].uses + 1)]

\* NewBlock(tz, parent), lines 111-172, on the object id that AllocBlock
\* returns; tz is <<>> or holds the bundle, parentId is 0 or a block in use.
NewBlock(m, id, tz, parentId) ==
    LET m1 == AllocBlock(m, id)
    IN  IF tz = <<>> \/ ~tz[1].HasBlock
        THEN [m1 EXCEPT !.err = "block init: missing rpc block", !.news = @ + 1]
        ELSE LET par == IF parentId = 0 THEN <<>> ELSE <<m1.objs[parentId]>>
                 c == AllocCopy(m1.heap, IF par = <<>> THEN 0 ELSE par[1].Chain)
                 s == AllocCopy(c.heap, IF par = <<>> THEN 0 ELSE par[1].Supply)
             IN  [m1 EXCEPT
                    !.objs[id] = InitBlock(@, tz[1], parentId, par, c.ref, s.ref),
                    !.heap = s.heap,
                    !.meta[id] = [@ EXCEPT
                        !.state = "live",
                        !.inputs = <<[tz |-> tz[1], parent |-> parentId]>>,
                        !.born =
                            [f \in {"Chain", "Supply"} |->
                                IF par = <<>> \/ par[1][f] = 0 THEN 0
                                ELSE m1.heap[par[1][f]]]],
                    !.err = "", !.news = @ + 1]

\* The raw blocks of level 2 with every timestamp up to MaxTime.
TimedBundles ==
    {[Bundle(TRUE, 2, 2, <<>>, <<>>) EXCEPT !.Time = t] : t \in 0..MaxTime}

\* The builder on a new block: implicit events, then Block.Update.
BuildObject(b) ==
    Update(AppendImplicitEvents(b, b.TZ[1].Flows, b.TZ[1].Version),
           b.TZ[1].Accounts, <<>>, b.TZ[1].Version)

\* The children that Reset frees, lines 353-355 and 359-361: o.Free() for
\* each op, f.Free() for each flow.
FreedChildren(b) == Len(b.Ops) + Len(b.Flows)

\* The calls of Op.Free and Flow.Free that Clean or Reset makes on block id.
FreeChildren(m, id) ==
    [m EXCEPT !.children = @ - FreedChildren(m.objs[id]),
              !.meta[id].frees = @ + FreedChildren(m.objs[id]),
              !.meta[id].passes = @ + 1]

\* Block.Free, lines 278-281: Reset, then back into the pool.
Free(m, id) ==
    [FreeChildren(m, id) EXCEPT !.objs[id] = Reset(@), !.meta[id].state = "pool"]

\* A Clean that frees the ops and flows and leaves them in the lists.
CleanKeepLists(b) == [b EXCEPT !.AbsentEndorsers = <<>>]

\* Block.Clean, lines 283-302, on a block with its raw block: ops and flows
\* freed and the lists emptied, the absent endorsers dropped (the bundle's
\* rights and operations, emptied at 297-299, are not carried).
Clean(b) == [b EXCEPT !.Ops = <<>>, !.Flows = <<>>, !.AbsentEndorsers = <<>>]

DoNewBlock ==
    /\ mem.news < MaxNews
    /\ \E id \in Gettable(mem) : \E tz \in {<<>>} \cup {<<t>> : t \in Bundles} :
       \E p \in {0} \cup Live(mem) :
        mem' = NewBlock(mem, id, tz, p)
    /\ UNCHANGED <<run, fetch, api, lookup>>
    /\ UNCHANGED <<builderVars, crawlerVars>>

\* NewBlock on a raw block of any timestamp, alone or under a block in use.
DoNewBlockTimed ==
    /\ mem.news < MaxNews
    /\ \E id \in Gettable(mem) : \E t \in TimedBundles :
       \E p \in {0} \cup Live(mem) :
        mem' = NewBlock(mem, id, <<t>>, p)
    /\ UNCHANGED <<run, fetch, api, lookup>>
    /\ UNCHANGED <<builderVars, crawlerVars>>

\* The builder derives the block's ops, flows and aggregates from the block's
\* bundle.
DoBuildObject ==
    /\ \E id \in Live(mem) :
        /\ ~mem.meta[id].built
        /\ mem.objs[id].TZ # <<>>
        /\ LET b == BuildObject(mem.objs[id])
               n == (Len(b.Ops) - Len(mem.objs[id].Ops))
                    + (Len(b.Flows) - Len(mem.objs[id].Flows))
           IN  mem' = [mem EXCEPT
                        !.objs[id] = b,
                        !.meta[id].built = TRUE,
                        !.meta[id].made = @ + n,
                        !.children = @ + n]
    /\ UNCHANGED <<run, fetch, api, lookup>>
    /\ UNCHANGED <<builderVars, crawlerVars>>

\* The builder and the indexer fill in the fields that the raw block does not
\* give: row ids, baker and proposer, flags.
DoFillObject ==
    /\ \E id \in Live(mem) :
        /\ mem.objs[id].RowId = 0
        /\ mem' = [mem EXCEPT !.objs[id] =
                    [@ EXCEPT !.RowId = id, !.IsCycleSnapshot = 1, !.Round = 1,
                              !.Nonce = 1, !.BakerId = 1, !.ProposerId = 1,
                              !.NSlotsEndorsed = 1, !.LbEscapeVote = 1,
                              !.LbEscapeEma = 1, !.ProposerConsensusKeyId = 1,
                              !.BakerConsensusKeyId = 1, !.Baker = 1,
                              !.Proposer = 1, !.HasProposals = TRUE,
                              !.HasBallots = TRUE, !.HasSeeds = TRUE,
                              !.AbsentBaker = 1, !.AbsentEndorsers = <<1>>]]
    /\ UNCHANGED <<run, fetch, api, lookup>>
    /\ UNCHANGED <<builderVars, crawlerVars>>

\* A block's running Chain or Supply totals are updated in place.
DoWriteTotals ==
    /\ \E id \in Live(mem) : \E f \in {"Chain", "Supply"} :
        /\ mem.meta[id].writes[f] < MaxWrites
        /\ mem' = [mem EXCEPT !.heap[mem.objs[id][f]] = @ + 1,
                              !.meta[id].writes[f] = @ + 1]
    /\ UNCHANGED <<run, fetch, api, lookup>>
    /\ UNCHANGED <<builderVars, crawlerVars>>

\* A committed block is freed.
DoFree ==
    /\ \E id \in Live(mem) : mem' = Free(mem, id)
    /\ UNCHANGED <<run, fetch, api, lookup>>
    /\ UNCHANGED <<builderVars, crawlerVars>>

\* b.Clean() on a block in use.
DoClean ==
    /\ \E id \in Live(mem) :
        /\ mem.meta[id].passes < MaxPasses
        /\ ~CleanFaults(IF mem.objs[id].TZ = <<>> THEN "nil" ELSE "block")
        /\ mem' = [FreeChildren(mem, id) EXCEPT !.objs[id] = Clean(@)]
    /\ UNCHANGED <<run, fetch, api, lookup>>
    /\ UNCHANGED <<builderVars, crawlerVars>>

\* b.Reset() on a block in use, which stays with its caller.
DoReset ==
    /\ \E id \in Live(mem) :
        /\ mem.meta[id].passes < MaxPasses
        /\ mem' = [FreeChildren(mem, id) EXCEPT !.objs[id] = Reset(@)]
    /\ UNCHANGED <<run, fetch, api, lookup>>
    /\ UNCHANGED <<builderVars, crawlerVars>>

\* A built block is rolled back and freed; what its build gave is kept for
\* comparison with a later build from the same inputs.
DoRollbackFree ==
    /\ \E id \in Live(mem) :
        /\ mem.meta[id].built
        /\ LET b == RollbackBlock(mem.objs[id])
           IN  mem' = [Free([mem EXCEPT !.objs[id] = b], id) EXCEPT
                        !.saved = <<[inputs |-> mem.meta[id].inputs[1],
                                     Ops |-> b.Ops, Flows |-> b.Flows,
                                     Counters |-> Counters(b)]>>]
    /\ UNCHANGED <<run, fetch, api, lookup>>
    /\ UNCHANGED <<builderVars, crawlerVars>>

-----------------------------------------------------------------------------
(* runServer (unnamed/part_000): the start-up of the process, step by step.
   run.calls lists the calls made so far, run.defers the deferred calls. *)

MaxCrawls == 1      \* poll cycles of a started crawler that the model follows

\* The noindex switch left untouched when no RPC client is used.
NoIndexFlagOnly(flag, norpc) == flag

\* noindex after lines 65-74: set by the flag, or forced without RPC client.
NoIndex(flag, norpc) == flag \/ norpc

\* The mode the crawler is initialised in, lines 107-117.
InitMode(noindex) == IF noindex THEN "MODE_INFO" ELSE "MODE_SYNC"

RunCall(r, c) == [r EXCEPT !.calls = Append(@, c)]

\* A deferred call put in front of the earlier ones: run first in, first out.
RunDeferFirst(r, c) == [r EXCEPT !.defers = <<c>> \o @]

RunDefer(r, c) == [r EXCEPT !.defers = Append(@, c)]

\* return err: the deferred calls run next.
RunFail(r, e) == [r EXCEPT !.err = e, !.pc = "return"]

RunAt(r, pc0) == [r EXCEPT !.pc = pc0]

RunStart(flag, norpc, noapi, snap) ==
    [pc |-> "extensions", noindexFlag |-> flag, noindex |-> flag,
     norpc |-> norpc, noapi |-> noapi, snap |-> snap, mode |-> "",
     calls |-> <<>>, defers |-> <<>>, err |-> ""]

RunIdle == RunStart(FALSE, FALSE, FALSE, FALSE)

Count(calls, c) == Cardinality({i \in 1..Len(calls) : calls[i] = c})

\* metadata.LoadExtensions, lines 29-32.
RunLoadExtensions ==
    /\ run.pc = "extensions"
    /\ \E ok \in BOOLEAN :
        run' = IF ok THEN RunAt(RunCall(run, "metadata.LoadExtensions"), "paths")
               ELSE RunFail(run, "extensions")
    /\ UNCHANGED <<mem, fetch, api, lookup>>
    /\ UNCHANGED <<builderVars, crawlerVars>>

\* os.MkdirAll of the database path and of the snapshot path, lines 41-50.
RunMakePaths ==
    /\ run.pc = "paths"
    /\ \E ok \in BOOLEAN : \E snapOk \in BOOLEAN :
        run' = IF ~ok THEN RunFail(run, "mkdir db.path")
               ELSE IF run.snap /\ ~snapOk THEN RunFail(run, "mkdir snapshot_path")
               ELSE RunAt(run, "statedb")
    /\ UNCHANGED <<mem, fetch, api, lookup>>
    /\ UNCHANGED <<builderVars, crawlerVars>>

\* store.Open, then store.Create when the database does not exist, lines 52-63.
RunOpenState ==
    /\ run.pc = "statedb"
    /\ \E o \in {"opened", "created", "open_failed", "create_failed"} :
        run' = IF o \in {"opened", "created"}
               THEN RunAt(RunDefer(RunCall(run, "statedb." \o o), "statedb.Close"),
                          "rpc")
               ELSE RunFail(run, o)
    /\ UNCHANGED <<mem, fetch, api, lookup>>
    /\ UNCHANGED <<builderVars, crawlerVars>>

\* The RPC client and the context, lines 65-77: without one, indexing is switched off.
RunRpcClient ==
    /\ run.pc = "rpc"
    /\ \E ok \in BOOLEAN :
        run' = IF ~run.norpc /\ ~ok THEN RunFail(run, "rpc client")
               ELSE RunAt(RunDefer(
                        [run EXCEPT !.noindex = NoIndex(run.noindex, run.norpc)],
                        "cancel"), "crawler")
    /\ UNCHANGED <<mem, fetch, api, lookup>>
    /\ UNCHANGED <<builderVars, crawlerVars>>

\* NewIndexer, NewCrawler and crawler.Init, lines 79-117; Start and the
\* deferred Stop only after a successful Init in MODE_SYNC.
RunCrawlerInit ==
    /\ run.pc = "crawler"
    /\ \E ok \in BOOLEAN :
        LET r1 == RunDefer(RunCall(run, "etl.NewIndexer"), "indexer.Close")
            r2 == [RunCall(r1, "etl.NewCrawler") EXCEPT !.mode = InitMode(run.noindex)]
            r3 == RunCall(r2, "crawler.Init(" \o r2.mode \o ")")
        IN  run' = IF ~ok THEN RunFail(r2, "error initializing crawler")
                   ELSE IF ~run.noindex
                   THEN RunAt(RunDefer(RunCall(r3, "crawler.Start"), "crawler.Stop"),
                              "api")
                   ELSE RunAt(r3, "api")
    /\ UNCHANGED <<mem, fetch, api, lookup>>
    /\ UNCHANGED <<builderVars, crawlerVars>>

\* The HTTP server, lines 119-159.
RunApi ==
    /\ run.pc = "api"
    /\ \E ok \in BOOLEAN :
        run' = IF run.noapi THEN RunAt(run, "wait")
               ELSE IF ~ok THEN RunFail(run, "server.New")
               ELSE RunAt(RunDefer(RunCall(RunCall(run, "server.New"), "srv.Start"),
                                   "srv.Stop"), "wait")
    /\ UNCHANGED <<mem, fetch, api, lookup>>
    /\ UNCHANGED <<builderVars, crawlerVars>>

\* A signal arrives, lines 161-170.
RunSignal ==
    /\ run.pc = "wait"
    /\ run' = RunAt(run, "return")
    /\ UNCHANGED <<mem, fetch, api, lookup>>
    /\ UNCHANGED <<builderVars, crawlerVars>>

\* On return the deferred calls run, last deferred first.
RunDeferred ==
    /\ run.pc = "return"
    /\ run.defers # <<>>
    /\ run' = [RunCall(run, run.defers[Len(run.defers)])
                 EXCEPT !.defers = SubSeq(@, 1, Len(@) - 1)]
    /\ UNCHANGED <<mem, fetch, api, lookup>>
    /\ UNCHANGED <<builderVars, crawlerVars>>

RunExit ==
    /\ run.pc = "return"
    /\ run.defers = <<>>
    /\ run' = RunAt(run, "done")
    /\ UNCHANGED <<mem, fetch, api, lookup>>
    /\ UNCHANGED <<builderVars, crawlerVars>>

\* A started crawler builds and commits a block (design 4.4); a crawler that
\* was not started, or was stopped, does not.
CrawlerCycle ==
    /\ Count(run.calls, "crawler.Start") > 0
    /\ Count(run.calls, "crawler.Stop") = 0
    /\ Count(run.calls, "crawler.commit") < MaxCrawls
    /\ run' = RunCall(run, "crawler.commit")
    /\ UNCHANGED <<mem, fetch, api, lookup>>
    /\ UNCHANGED <<builderVars, crawlerVars>>

-----------------------------------------------------------------------------
(* StreamOpTable and Op.MarshalJSONBrief (unnamed/part_001): one request on
   the op table, in JSON and brief form.  A request names its columns and has
   at most one address filter: a column, a filter mode and the addresses of
   its value, split at the commas.  The table's fields carry their long
   names. *)

MaxColumns == 2     \* columns of a request
MaxAddresses == 2   \* addresses in a filter value

\* opSourceNames, the entries of lines 51-61 that the model uses: the long
\* names of a request and the short names of the table ("-" = no field).
opSourceNames ==
    [sender |-> "S", receiver |-> "R", id |-> "h", address |-> "-",
     entrypoint_id |-> "-"]

\* The names a request may give as a column: those of opSourceNames and one
\* that is unknown.
ColumnNames == DOMAIN opSourceNames \cup {"nosuch"}

\* opAllAliases, the columns of a request that names none (lines 63-71).
opAllAliases == <<"sender", "receiver">>

\* The accounts of the index: tezos.ParseAddress accepts the well-formed
\* addresses, Indexer.LookupAccount knows two of them (0 = no account entry).
WellFormed == {"tz1_a", "tz1_b", "tz1_x"}

LookupAccount(addr) ==
    CASE addr = "tz1_a" -> 1
      [] addr = "tz1_b" -> 2
      [] OTHER -> 0

\* math.MaxUint64, the id that no account has (the largest id of the model).
MaxUint64 == 2147483647

IdFields == {"sender_id", "receiver_id", "baker_id", "creator_id"}

\* The op table and the endorsement table, in row order.
OpRows ==
    <<[Table |-> "op", Height |-> 1, OpN |-> 0, sender_id |-> 1,
       receiver_id |-> 2, baker_id |-> 0, creator_id |-> 0],
      [Table |-> "op", Height |-> 2, OpN |-> 0, sender_id |-> 2,
       receiver_id |-> 0, baker_id |-> 1, creator_id |-> 1]>>

\* Endorsement.ToOp() gives an op with the endorser as sender.
EndorseRows ==
    <<[Table |-> "endorse", Height |-> 1, OpN |-> 1, sender_id |-> 2,
       receiver_id |-> 0, baker_id |-> 0, creator_id |-> 0],
      [Table |-> "endorse", Height |-> 2, OpN |-> 1, sender_id |-> 1,
       receiver_id |-> 0, baker_id |-> 0, creator_id |-> 0]>>

\* All rows in the order of OpSorter (lines 74-83): by height, then op_n.
RowOrder == <<OpRows[1], EndorseRows[1], OpRows[2], EndorseRows[2]>>

Range(s) == {s[i] : i \in 1..Len(s)}

\* A pack condition on one field, and a group of conditions joined by OR
\* (q.OrCondition) or by AND (q.And, q.AndCondition).
Leaf(field, mode, vals) == [Field |-> field, Mode |-> mode, Vals |-> vals]

Group(any, leaves) == [Any |-> any, Leaves |-> leaves]

\* A condition with an empty list: In matches no row, NotIn every row.
MatchLeaf(row, c) ==
    IF c.Mode \in {"eq", "in"} THEN row[c.Field] \in c.Vals
    ELSE row[c.Field] \notin c.Vals

MatchGroup(row, g) ==
    IF g.Any THEN \E c \in g.Leaves : MatchLeaf(row, c)
    ELSE \A c \in g.Leaves : MatchLeaf(row, c)

\* table.Query(ctx, q): the rows that meet every condition of the query.
Query(rows, q) ==
    SelectSeq(rows, LAMBDA r : \A i \in 1..Len(q) : MatchGroup(r, q[i]))

Built(q) == [panic |-> "", q |-> q]

Panic(msg) == [panic |-> msg, q |-> <<>>]

\* Some address of the value does not parse.
BadAddress(vals) == \E i \in 1..Len(vals) : vals[i] \notin WellFormed

\* The row ids of the addresses that have an account, in the value's order.
ResolvedIds(vals) ==
    SelectSeq([i \in 1..Len(vals) |-> LookupAccount(vals[i])], LAMBDA id : id > 0)

\* The same condition on each of the four account fields.
OnIdFields(any, mode, ids) ==
    <<Group(any, {Leaf(f, mode, ids) : f \in IdFields})>>

\* case "address", lines 682-745: the filter on any of the four accounts.  An
\* equality falls through to the list case, which adds its condition for more
\* than one id only.
AddressFilter(mode, vals) ==
    IF BadAddress(vals) THEN Panic("invalid address")
    ELSE LET addrs == ResolvedIds(vals)
             n == Len(addrs)
         IN  CASE mode = "eq" ->
                    Built(IF n = 1 THEN OnIdFields(TRUE, "eq", Range(addrs))
                          ELSE IF n > 1 THEN OnIdFields(TRUE, "in", Range(addrs))
                          ELSE <<>>)
               [] mode = "in" ->
                    Built(IF n > 1 THEN OnIdFields(TRUE, "in", Range(addrs))
                          ELSE <<>>)
               [] mode = "ne" ->
                    Built(IF n = 1 THEN OnIdFields(FALSE, "ne", Range(addrs))
                          ELSE IF n > 1 THEN OnIdFields(FALSE, "nin", Range(addrs))
                          ELSE <<>>)
               [] mode = "nin" ->
                    Built(IF n > 1 THEN OnIdFields(FALSE, "nin", Range(addrs))
                          ELSE <<>>)
               [] OTHER -> Panic("invalid filter mode")

\* The table field of an account column.
IdField(col) ==
    CASE col = "sender" -> "sender_id"
      [] col = "receiver" -> "receiver_id"
      [] col = "creator" -> "creator_id"
      [] col = "baker" -> "baker_id"

\* case "sender", "receiver", "creator", "baker", lines 746-801.  An equality
\* parses the value as one address; an address without account gives the
\* condition on MaxUint64, and a list the condition on the ids found.
AccountFilter(col, mode, vals) ==
    CASE mode \in {"eq", "ne"} ->
            IF vals = <<"">>
            THEN Built(<<Group(FALSE, {Leaf(IdField(col), "eq", {0})})>>)
            ELSE IF Len(vals) # 1 \/ BadAddress(vals) THEN Panic("invalid address")
            ELSE LET id == LookupAccount(vals[1])
                 IN  Built(<<Group(FALSE,
                        {Leaf(IdField(col), mode,
                              {IF id = 0 THEN MaxUint64 ELSE id})})>>)
      [] mode \in {"in", "nin"} ->
            IF BadAddress(vals) THEN Panic("invalid address")
            ELSE Built(<<Group(FALSE,
                    {Leaf(IdField(col), mode, Range(ResolvedIds(vals)))})>>)
      [] OTHER -> Panic("invalid filter mode")

\* The conditions on the op table, lines 548-838, for a request with the
\* filters f (none or one).
OpFilter(f) ==
    IF f = <<>> THEN Built(<<>>)
    ELSE IF f[1].col = "address" THEN AddressFilter(f[1].mode, f[1].vals)
    ELSE AccountFilter(f[1].col, f[1].mode, f[1].vals)

\* needEndorse after both loops: lines 747 and 933-940 switch the join off for
\* a filter on receiver, creator or baker.
NeedEndorse(f) == f = <<>> \/ f[1].col \in {"address", "sender"}

\* case "address", "sender" of the endorsement query, lines 1030-1062.
EndorseFilter(f) ==
    IF f = <<>> THEN Built(<<>>)
    ELSE IF BadAddress(f[1].vals) THEN Panic("invalid address")
    ELSE LET addrs == ResolvedIds(f[1].vals)
             one(mode) == <<Group(FALSE, {Leaf("sender_id", mode, Range(addrs))})>>
         IN  CASE f[1].mode = "eq" -> Built(IF Len(addrs) = 1 THEN one("eq") ELSE <<>>)
               [] f[1].mode = "ne" -> Built(IF Len(addrs) = 1 THEN one("ne") ELSE <<>>)
               [] f[1].mode = "in" -> Built(one("in"))
               [] f[1].mode = "nin" -> Built(one("nin"))
               [] OTHER -> Panic("invalid filter mode")

RECURSIVE SrcNames(_)
\* Lines 515-536: the table fields to load for the columns of the request
\* (all fields, lines 537-541, when it names none).
SrcNames(cols) ==
    IF cols = <<>> THEN <<>>
    ELSE LET v == Head(cols)
             n == opSourceNames[v]
         IN  (IF n # "-" THEN <<n>> ELSE <<>>)
             \o (CASE v = "address" ->
                        <<"sender_id", "receiver_id", "baker_id", "creator_id">>
                   [] v = "id" -> <<"height", "op_n">>
                   [] OTHER -> <<>>)
             \o SrcNames(Tail(cols))

\* The value that MarshalJSONBrief writes for a column, as one token; <<>> for
\* a column without case (default: continue, lines 361-362).
BriefValue(o, v) ==
    CASE v = "id" -> <<"id">>
      [] v = "sender" -> <<"sender">>
      [] v = "receiver" -> IF o.receiver_id > 0 THEN <<"receiver">> ELSE <<"null">>
      [] OTHER -> <<>>

RECURSIVE BriefFrom(_, _, _)
\* The loop of MarshalJSONBrief from column i on, lines 206-366: a column
\* with a case writes its value and, unless it is the last column, a comma;
\* a column without case writes nothing.
BriefFrom(o, cols, i) ==
    IF i > Len(cols) THEN <<>>
    ELSE LET val == BriefValue(o, cols[i])
         IN  (IF val = <<>> THEN <<>>
              ELSE val \o (IF i < Len(cols) THEN <<",">> ELSE <<>>))
             \o BriefFrom(o, cols, i + 1)

\* Op.MarshalJSONBrief, lines 203-367, as the tokens it writes.
MarshalJSONBrief(o, cols) == <<"[">> \o BriefFrom(o, cols, 1) \o <<"]">>

\* The request's columns, or all aliases when it names none (lines 513, 540).
ColumnsOf(req) == IF req.columns = <<>> THEN opAllAliases ELSE req.columns

Response(p, fields, ops, body) ==
    [panic |-> p, fields |-> fields, ops |-> ops, body |-> body]

\* StreamOpTable, lines 499-1225, for the JSON format without limit: the
\* columns are checked, the op table and, where needed, the endorsement table
\* are queried, the rows merged in height order and each row written with
\* MarshalJSONBrief.
StreamOpTable(req) ==
    IF \E i \in 1..Len(req.columns) : req.columns[i] \notin DOMAIN opSourceNames
    THEN Response("unknown column", <<>>, <<>>, <<>>)
    ELSE LET fields == IF req.columns = <<>> THEN <<"all">>
                       ELSE SrcNames(req.columns)
             q == OpFilter(req.filter)
             q2 == EndorseFilter(req.filter)
         IN  IF q.panic # "" THEN Response(q.panic, fields, <<>>, <<>>)
             ELSE IF NeedEndorse(req.filter) /\ q2.panic # ""
             THEN Response(q2.panic, fields, <<>>, <<>>)
             ELSE LET found == Range(Query(OpRows, q.q))
                            \cup (IF NeedEndorse(req.filter)
                                  THEN Range(Query(EndorseRows, q2.q)) ELSE {})
                      ops == SelectSeq(RowOrder, LAMBDA r : r \in found)
                  IN  Response("", fields, ops,
                        [i \in 1..Len(ops) |->
                            MarshalJSONBrief(ops[i], ColumnsOf(req))])

\* The filters of a request: none, or one filter on an account column with a
\* value of up to MaxAddresses addresses or the empty value.
FilterModes == {"eq", "ne", "in", "nin", "gt"}

FilterValues ==
    {[col |-> col, mode |-> mode, vals |-> vals] :
        col \in {"sender", "receiver", "creator", "baker", "address"},
        mode \in FilterModes,
        vals \in {<<"">>} \cup UNION {[1..k -> WellFormed \cup {"bad"}] :
                                        k \in 1..MaxAddresses}}

ApiIdle ==
    [pc |-> "idle", req |-> [columns |-> <<>>, filter |-> <<>>],
     res |-> Response("", <<>>, <<>>, <<>>)]

\* One GET on the op table.
DoStreamOpTable ==
    /\ api.pc = "ready"
    /\ api' = [api EXCEPT !.pc = "done", !.res = StreamOpTable(api.req)]
    /\ UNCHANGED <<run, mem, fetch, lookup>>
    /\ UNCHANGED <<builderVars, crawlerVars>>

-----------------------------------------------------------------------------
(* Block.GetOpId, etl/model/block.go lines 249-261, on a list of ops that
   carry their row id and their position (OpN, OpC, OpI). *)

MaxOps == 3         \* ops of the block that GetOpId searches
MaxPos == 1         \* largest OpN, OpC and OpI of an op

\* The first op from index i on that is skipped by none of the comparisons.
RECURSIVE GetOpIdFrom(_, _, _, _, _)
GetOpIdFrom(ops, i, opn, opc, opi) ==
    IF i > Len(ops) THEN [id |-> 0, found |-> FALSE]
    ELSE IF ops[i].OpN < opn \/ ops[i].OpC < opc \/ ops[i].OpI < opi
    THEN GetOpIdFrom(ops, i + 1, opn, opc, opi)
    ELSE [id |-> ops[i].RowId, found |-> TRUE]

\* A search that looks at the position in the block only.
GetOpIdByN(ops, opn, opc, opi) ==
    IF opn < 0 THEN [id |-> 0, found |-> FALSE]
    ELSE GetOpIdFrom(ops, 1, opn, 0, 0)

\* Block.GetOpId(opn, opc, opi), lines 249-261.
GetOpId(ops, opn, opc, opi) ==
    IF opn < 0 THEN [id |-> 0, found |-> FALSE]
    ELSE GetOpIdFrom(ops, 1, opn, opc, opi)

\* The positions an op can have, and the lists of ops of a block: the i-th op
\* has row id i.
Positions == (0..MaxPos) \X (0..MaxPos) \X (0..MaxPos)

PlacedOps(ps) ==
    [i \in 1..Len(ps) |->
        [RowId |-> i, OpN |-> ps[i][1], OpC |-> ps[i][2], OpI |-> ps[i][3]]]

LookupIdle ==
    [pc |-> "idle", ops |-> <<>>, opn |-> 0, opc |-> 0, opi |-> 0,
     res |-> [id |-> 0, found |-> FALSE]]

\* b.GetOpId(opn, opc, opi)
DoGetOpId ==
    /\ lookup.pc = "ready"
    /\ lookup' = [lookup EXCEPT
                    !.pc = "done",
                    !.res = GetOpId(lookup.ops, lookup.opn, lookup.opc, lookup.opi)]
    /\ UNCHANGED <<run, mem, fetch, api>>
    /\ UNCHANGED <<builderVars, crawlerVars>>

\* Outside the start-up, the block pool, FetchRPC, the table API and GetOpId.
ExtraIdle ==
    /\ run = RunIdle
    /\ mem = MemIdle
    /\ lookup = LookupIdle
    /\ api = ApiIdle
    /\ fetch = FetchIdle

-----------------------------------------------------------------------------
(* The builder's steps on one block *)

\* The state NewBlock leaves: an empty block, nothing built.
BuilderStart ==
    /\ block = ZeroBlock
    /\ accounts = <<>>
    /\ bakers = <<>>
    /\ conMap = {}
    /\ err = ""
    /\ prev = ZeroBlock

DoAppendImplicitEvents ==
    /\ pc = "start"
    /\ block' = AppendImplicitEvents(block, flows, version)
    /\ err' = ""
    /\ pc' = "events"
    /\ UNCHANGED <<version, flows, results, parent, accounts, bakers, conMap, prev>>
    /\ UNCHANGED crawlerVars
    /\ UNCHANGED extraVars

DoAppendImplicitBlockOps ==
    /\ pc = "events"
    /\ LET st == AppendImplicitBlockOps(BuildState(block, conMap, ""), results)
       IN  /\ block' = st.block
           /\ conMap' = st.conMap
           /\ err' = st.err
           /\ pc' = IF st.err = "" THEN "blockops" ELSE "failed"
    /\ UNCHANGED <<version, flows, results, parent, accounts, bakers, prev>>
    /\ UNCHANGED crawlerVars
    /\ UNCHANGED extraVars

Updatable == {"events", "blockops", "ops", "updated", "updated_again"}

NItems == Len(block.Ops) + Len(accounts) + Len(bakers)

\* A regular operation is appended at the next position of the block.
DoAppendOp ==
    /\ pc \in Updatable
    /\ NItems < MaxItems
    /\ \E o \in RegularOps :
        block' = [block EXCEPT !.Ops = Append(@,
                    [o EXCEPT !.OpN = NextN(block), !.OpP = NextN(block)])]
    /\ pc' = "ops"
    /\ UNCHANGED <<version, flows, results, parent, accounts, bakers, conMap, err, prev>>
    /\ UNCHANGED crawlerVars
    /\ UNCHANGED extraVars

\* The builder loads or creates an account while it processes the block.
DoTouchAccount ==
    /\ pc \in Updatable
    /\ NItems < MaxItems
    /\ \E a \in AccountSet : accounts' = Append(accounts, a)
    /\ pc' = "ops"
    /\ UNCHANGED <<version, flows, results, block, parent, bakers, conMap, err, prev>>
    /\ UNCHANGED crawlerVars
    /\ UNCHANGED extraVars

DoTouchBaker ==
    /\ pc \in Updatable
    /\ NItems < MaxItems
    /\ \E k \in BakerSet : bakers' = Append(bakers, k)
    /\ pc' = "ops"
    /\ UNCHANGED <<version, flows, results, block, parent, accounts, conMap, err, prev>>
    /\ UNCHANGED crawlerVars
    /\ UNCHANGED extraVars

\* b.block.Update(accounts, bakers)
DoUpdate ==
    /\ pc \in Updatable
    /\ block' = Update(block, accounts, bakers, version)
    /\ parent' = UpdateParent(parent, block)
    /\ prev' = block
    /\ pc' = IF pc \in {"updated", "updated_again"} THEN "updated_again" ELSE "updated"
    /\ UNCHANGED <<version, flows, results, accounts, bakers, conMap, err>>
    /\ UNCHANGED crawlerVars
    /\ UNCHANGED extraVars

vars == <<builderVars, crawlerVars, extraVars>>

\* Implicit events of one block, then its aggregates.
InitEvents ==
    /\ version \in Versions
    /\ parent = [Exists |-> TRUE, NSlotsEndorsed |-> 0]
    /\ IsFlowList(flows, FlowShapes)
    /\ results = <<>>
    /\ pc = "start"
    /\ BuilderStart
    /\ CrawlerIdle
    /\ ExtraIdle

NextEvents == DoAppendImplicitEvents \/ DoUpdate

SpecEvents == InitEvents /\ [][NextEvents]_vars

\* The flows of one baker's block: baking deposits and rewards.
BakerShapes ==
    {sh \in FlowShapes :
        sh.Operation = "baking" /\ sh.Category \in {"deposits", "rewards"}}

\* The flow lists the range check of line 35 is written for: flows in any
\* order of position, positions from -1 on.
IsAnyFlowList(fs, shapes) ==
    \E k \in 0..MaxFlows :
        \E c \in [1..k -> shapes \X (-1..MaxN)] :
            fs = [i \in 1..k |-> MkFlow(c[i][1], c[i][2], Pow2(i - 1))]

\* Implicit events of a block whose flows come in any order.
InitEventsAny ==
    /\ version \in Versions
    /\ parent = [Exists |-> TRUE, NSlotsEndorsed |-> 0]
    /\ IsAnyFlowList(flows, BakerShapes)
    /\ results = <<>>
    /\ pc = "start"
    /\ BuilderStart
    /\ CrawlerIdle
    /\ ExtraIdle

SpecEventsAny == InitEventsAny /\ [][NextEvents]_vars

\* Implicit events, then the implicit operation results of the block's
\* metadata (Granada and later), then the block's aggregates.
InitBlockOps ==
    /\ version \in {v \in Versions : v >= 12}
    /\ parent = [Exists |-> TRUE, NSlotsEndorsed |-> 0]
    /\ IsFlowList(flows, BakerShapes)
    /\ \E k \in 0..MaxResults : results \in [1..k -> ResultSet]
    /\ pc = "start"
    /\ BuilderStart
    /\ CrawlerIdle
    /\ ExtraIdle

NextBlockOps == DoAppendImplicitEvents \/ DoAppendImplicitBlockOps \/ DoUpdate

SpecBlockOps == InitBlockOps /\ [][NextBlockOps]_vars

\* The aggregates of a block whose ops, accounts and bakers change between
\* calls of Block.Update.
InitUpdate ==
    /\ version \in {v \in Versions : v # 9}
    /\ parent \in {NoParent, [Exists |-> TRUE, NSlotsEndorsed |-> 0]}
    /\ flows = <<>>
    /\ results = <<>>
    /\ pc = "ops"
    /\ BuilderStart
    /\ CrawlerIdle
    /\ ExtraIdle

NextUpdate == DoAppendOp \/ DoTouchAccount \/ DoTouchBaker \/ DoUpdate

SpecUpdate == InitUpdate /\ [][NextUpdate]_vars

\* The start-up of the process under every setting of its switches.
InitServer ==
    /\ \E flag \in BOOLEAN : \E norpc \in BOOLEAN : \E noapi \in BOOLEAN :
       \E snap \in BOOLEAN : run = RunStart(flag, norpc, noapi, snap)
    /\ mem = MemIdle
    /\ lookup = LookupIdle
    /\ api = ApiIdle
    /\ fetch = FetchIdle
    /\ version = 12
    /\ parent = NoParent
    /\ flows = <<>>
    /\ results = <<>>
    /\ pc = "start"
    /\ BuilderStart
    /\ CrawlerIdle

NextServer ==
    \/ RunLoadExtensions
    \/ RunMakePaths
    \/ RunOpenState
    \/ RunRpcClient
    \/ RunCrawlerInit
    \/ RunApi
    \/ RunSignal
    \/ RunDeferred
    \/ RunExit
    \/ CrawlerCycle

SpecServer == InitServer /\ [][NextServer]_vars

\* FetchRPC on a block of any height, with or without raw block and params.
InitFetch ==
    /\ \E valid \in BOOLEAN : \E tz \in {"nil", "empty", "block"} :
       \E params \in BOOLEAN : \E h \in 0..MaxFetchHeight :
        fetch = [FetchIdle EXCEPT !.pc = "ready",
                                  !.block = FetchBlockOf(valid, tz, params, h),
                                  !.was = FetchBlockOf(valid, tz, params, h)]
    /\ run = RunIdle
    /\ mem = MemIdle
    /\ lookup = LookupIdle
    /\ api = ApiIdle
    /\ version = 12
    /\ parent = NoParent
    /\ flows = <<>>
    /\ results = <<>>
    /\ pc = "start"
    /\ BuilderStart
    /\ CrawlerIdle

NextFetch == DoFetchRPC

SpecFetch == InitFetch /\ [][NextFetch]_vars

\* FetchRPC on a block, then Clean on it, whether FetchRPC failed or not.
NextClean == DoFetchRPC \/ DoCleanFetched

SpecClean == InitFetch /\ [][NextClean]_vars

\* One request on the op table, with any columns and any address filter.
InitTable ==
    /\ \E k \in 0..MaxColumns : \E cols \in [1..k -> ColumnNames] :
       \E f \in {<<>>} \cup {<<x>> : x \in FilterValues} :
        api = [ApiIdle EXCEPT !.pc = "ready",
                              !.req = [columns |-> cols, filter |-> f]]
    /\ run = RunIdle
    /\ mem = MemIdle
    /\ lookup = LookupIdle
    /\ fetch = FetchIdle
    /\ version = 12
    /\ parent = NoParent
    /\ flows = <<>>
    /\ results = <<>>
    /\ pc = "start"
    /\ BuilderStart
    /\ CrawlerIdle

NextTable == DoStreamOpTable

SpecTable == InitTable /\ [][NextTable]_vars

\* GetOpId on a block with any ops, in any order, for any position.
InitLookup ==
    /\ \E k \in 0..MaxOps : \E ps \in [1..k -> Positions] :
       \E opn \in -1..MaxPos : \E opc \in 0..MaxPos : \E opi \in 0..MaxPos :
        lookup = [LookupIdle EXCEPT !.pc = "ready", !.ops = PlacedOps(ps),
                                    !.opn = opn, !.opc = opc, !.opi = opi]
    /\ run = RunIdle
    /\ mem = MemIdle
    /\ fetch = FetchIdle
    /\ api = ApiIdle
    /\ version = 12
    /\ parent = NoParent
    /\ flows = <<>>
    /\ results = <<>>
    /\ pc = "start"
    /\ BuilderStart
    /\ CrawlerIdle

NextLookup == DoGetOpId

SpecLookup == InitLookup /\ [][NextLookup]_vars

\* Blocks are made, built, freed and made again from the pool.
InitPool ==
    /\ mem = MemIdle
    /\ lookup = LookupIdle
    /\ api = ApiIdle
    /\ run = RunIdle
    /\ fetch = FetchIdle
    /\ version = 12
    /\ parent = NoParent
    /\ flows = <<>>
    /\ results = <<>>
    /\ pc = "start"
    /\ BuilderStart
    /\ CrawlerIdle

NextPool ==
    \/ DoNewBlock
    \/ DoBuildObject
    \/ DoFillObject
    \/ DoWriteTotals
    \/ DoFree
    \/ DoRollbackFree

SpecPool == InitPool /\ [][NextPool]_vars

\* Blocks of any timestamps are made, alone and one under the other.
NextSolve == DoNewBlockTimed

SpecSolve == InitPool /\ [][NextSolve]_vars

\* Blocks are made and built, then cleaned, reset and freed in any order.
NextChildren ==
    \/ DoNewBlock
    \/ DoBuildObject
    \/ DoFillObject
    \/ DoClean
    \/ DoReset
    \/ DoFree

SpecChildren == InitPool /\ [][NextChildren]_vars

-----------------------------------------------------------------------------
(* The node, the crawler's poll cycle and the indexer *)

\* The node appends a block to its canonical chain.
NodeExtend ==
    /\ Len(node) < MaxHeight
    /\ \E p \in Powers :
        node' = Append(node, RawBlock(Len(node) + 1, node[Len(node)].Hash[2],
                                      node[Len(node)].Hash, p))
    /\ UNCHANGED <<forks, store, head, cstate, target, anc, before, pending,
                   log, failures>>
    /\ UNCHANGED builderVars
    /\ UNCHANGED extraVars

\* The node switches to a competing chain that leaves its old chain above
\* height a.
NodeFork ==
    /\ forks < MaxForks
    /\ \E a \in 1..(Len(node) - 1) : \E p \in Powers :
        node' = Append(SubSeq(node, 1, a),
                       RawBlock(a + 1, forks + 1, node[a].Hash, p))
    /\ forks' = forks + 1
    /\ UNCHANGED <<store, head, cstate, target, anc, before, pending, log,
                   failures>>
    /\ UNCHANGED builderVars
    /\ UNCHANGED extraVars

\* The poll cycle is over: every block of the followed chain is committed.
CycleDone ==
    /\ cstate = "running"
    /\ pending = <<>>
    /\ head.Height = Len(target)

\* Step 2 of the poll cycle: the reported chain extends the local head.
PollExtend ==
    /\ CycleDone
    /\ node # target
    /\ CommonAncestor(node, store) = head.Height
    /\ target' = node
    /\ UNCHANGED <<node, forks, store, head, cstate, anc, before, pending, log,
                   failures>>
    /\ UNCHANGED builderVars
    /\ UNCHANGED extraVars

\* Step 3: the reported chain leaves the indexed chain below the local head.
PollFork ==
    /\ CycleDone
    /\ node # target
    /\ LET a == CommonAncestor(node, store)
       IN  /\ a < head.Height
           /\ head.Height - a <= MaxReorgDepth
           /\ anc' = a
    /\ cstate' = "rollback"
    /\ target' = node
    /\ before' = store
    /\ log' = <<>>
    /\ UNCHANGED <<node, forks, store, head, pending, failures>>
    /\ UNCHANGED builderVars
    /\ UNCHANGED extraVars

\* Step 4: the fork is deeper than the maximum reorg depth.
PollTooDeep ==
    /\ CycleDone
    /\ node # target
    /\ LET a == CommonAncestor(node, store)
       IN  /\ a < head.Height
           /\ head.Height - a > MaxReorgDepth
    /\ cstate' = "failed"
    /\ UNCHANGED <<node, forks, store, head, target, anc, before, pending, log,
                   failures>>
    /\ UNCHANGED builderVars
    /\ UNCHANGED extraVars

\* Indexer.Rollback of the block at the local head.
RollbackStep ==
    /\ cstate = "rollback"
    /\ head.Height > anc
    /\ LET st == IndexerRollback(Persisted(store, head))
       IN  /\ store' = st.store
           /\ head' = st.head
    /\ log' = Append(log, Call("rollback", head.Height, head.Hash))
    /\ cstate' = IF head.Height - 1 = anc THEN "running" ELSE "rollback"
    /\ UNCHANGED <<node, forks, target, anc, before, pending, failures>>
    /\ UNCHANGED builderVars
    /\ UNCHANGED extraVars

\* The builder makes the block above the local head of the followed chain.
BuildNext ==
    /\ CanBuild
    /\ LET h == head.Height + 1
           b == BuildBlock(target[h], h, version)
       IN  /\ pending' = <<[Block |-> BlockRow(target[h], b),
                            Parent |-> ParentAfterBuild(store[head.Height], b)]>>
           /\ log' = Append(log, Call("build", h, target[h].Hash))
    /\ UNCHANGED <<node, forks, store, head, cstate, target, anc, before,
                   failures>>
    /\ UNCHANGED builderVars
    /\ UNCHANGED extraVars

\* Indexer.Commit of the built block succeeds.
CommitBlock ==
    /\ pending # <<>>
    /\ LET st == Commit(Persisted(store, head), pending[1])
       IN  /\ store' = st.store
           /\ head' = st.head
    /\ log' = Append(log, Call("commit", pending[1].Block.Height,
                               pending[1].Block.Hash))
    /\ pending' = <<>>
    /\ UNCHANGED <<node, forks, cstate, target, anc, before, failures>>
    /\ UNCHANGED builderVars
    /\ UNCHANGED extraVars

\* Indexer.Commit of the built block fails on a table write, or is cancelled.
CommitFail ==
    /\ pending # <<>>
    /\ failures < MaxFailures
    /\ LET st == CommitAborted(Persisted(store, head), pending[1])
       IN  /\ store' = st.store
           /\ head' = st.head
    /\ \E why \in {"commit_failed", "commit_cancelled"} :
        log' = Append(log, Call(why, pending[1].Block.Height,
                                pending[1].Block.Hash))
    /\ pending' = <<>>
    /\ failures' = failures + 1
    /\ UNCHANGED <<node, forks, cstate, target, anc, before>>
    /\ UNCHANGED builderVars
    /\ UNCHANGED extraVars

InitCrawler ==
    /\ version = 12
    /\ parent = NoParent
    /\ flows = <<>>
    /\ results = <<>>
    /\ pc = "start"
    /\ BuilderStart
    /\ CrawlerIdle
    /\ ExtraIdle

NextCrawler ==
    \/ NodeExtend
    \/ NodeFork
    \/ PollExtend
    \/ PollFork
    \/ PollTooDeep
    \/ RollbackStep
    \/ BuildNext
    \/ CommitBlock
    \/ CommitFail

SpecCrawler == InitCrawler /\ [][NextCrawler]_vars

-----------------------------------------------------------------------------
(* What the aggregates of a block are: each counter as a sum over the block's
   ops, accounts and bakers, starting from zero *)

TxApplied(op) == op.Type = "transaction" /\ op.IsSuccess /\ ~op.IsEvent

\* What one op adds to the counter `name`.
OpShare(name, op, ver) ==
    CASE name = "NOpsApplied" -> IF op.IsSuccess /\ ~op.IsEvent THEN 1 ELSE 0
      [] name = "NOpsFailed" -> IF ~op.IsSuccess THEN 1 ELSE 0
      [] name = "NEvents" -> IF op.IsSuccess /\ op.IsEvent THEN 1 ELSE 0
      [] name = "NContractCalls" ->
            IF TxApplied(op) /\ ~op.IsInternal /\ op.Dest = "contract" /\ op.HasParams
            THEN 1 ELSE 0
      [] name = "NRollupCalls" ->
            IF op.Type = "rollup_transaction" /\ op.IsSuccess THEN 1 ELSE 0
      [] name = "NTx" -> IF TxApplied(op) /\ ~op.IsInternal THEN 1 ELSE 0
      [] name = "Volume" ->
            IF \/ op.Type \in {"activation", "origination", "rollup_origination",
                               "rollup_transaction"} /\ op.IsSuccess
               \/ TxApplied(op) /\ op.Dest # "zero"
            THEN op.Volume ELSE 0
      [] name = "Fee" ->
            IF op.Type \in {"transaction", "origination", "rollup_origination",
                            "delegation", "reveal", "deposits_limit",
                            "register_constant", "rollup_transaction"}
            THEN op.Fee ELSE 0
      [] name = "Reward" -> IF op.Type \in {"bake", "bonus"} THEN op.Reward ELSE 0
      [] name = "Deposit" -> IF op.Type = "bake" THEN op.Deposit ELSE 0
      [] name = "ActivatedSupply" ->
            IF op.Type = "activation" /\ op.IsSuccess THEN op.Volume ELSE 0
      [] name = "BurnedSupply" ->
            (IF op.Type \in {"reward", "double_baking", "double_endorsement",
                             "double_preendorsement", "seed_slash", "transaction",
                             "origination", "rollup_origination",
                             "register_constant", "rollup_transaction"}
             THEN op.Burned ELSE 0)
            + (IF TxApplied(op) /\ op.Dest = "zero" THEN op.Volume ELSE 0)
      [] name = "MintedSupply" ->
            IF \/ op.Type \in {"bake", "bonus", "reward", "endorsement",
                               "nonce_revelation", "airdrop", "invoice", "subsidy",
                               "transaction"}
               \/ op.Type = "seed_slash" /\ ver >= 12
            THEN op.Reward ELSE 0
      [] name = "GasLimit" -> op.GasLimit
      [] name = "GasUsed" -> op.GasUsed
      [] name = "StoragePaid" -> op.StoragePaid
      [] OTHER -> 0

\* What one account (baker = FALSE) or one baker's account adds to `name`.
AccountShare(name, acc, height, baker) ==
    LET skipped == ~baker /\ acc.IsNew /\ acc.IsDirty /\ acc.IsBaker
        seen == ~skipped /\ acc.LastSeen = height
    IN  CASE name = "NewAccounts" ->
                IF \/ baker /\ acc.IsNew
                   \/ ~baker /\ acc.IsNew /\ acc.IsDirty /\ ~acc.IsBaker /\ ~acc.IsContract
                THEN 1 ELSE 0
          [] name = "NewContracts" ->
                IF ~baker /\ acc.IsNew /\ acc.IsDirty /\ ~acc.IsBaker /\ acc.IsContract
                THEN 1 ELSE 0
          [] name = "SeenAccounts" -> IF seen THEN 1 ELSE 0
          [] name = "ClearedAccounts" ->
                IF seen /\ ~acc.IsFunded /\ acc.WasFunded THEN 1 ELSE 0
          [] name = "FundedAccounts" ->
                IF seen /\ acc.IsFunded /\ ~acc.WasFunded THEN 1 ELSE 0
          [] OTHER -> 0

RECURSIVE SumOps(_, _, _)
SumOps(name, ops, ver) ==
    IF ops = <<>> THEN 0
    ELSE OpShare(name, Head(ops), ver) + SumOps(name, Tail(ops), ver)

RECURSIVE SumAccounts(_, _, _)
SumAccounts(name, accs, height) ==
    IF accs = <<>> THEN 0
    ELSE AccountShare(name, Head(accs), height, FALSE)
         + SumAccounts(name, Tail(accs), height)

RECURSIVE SumBakers(_, _, _)
SumBakers(name, bkrs, height) ==
    IF bkrs = <<>> THEN 0
    ELSE AccountShare(name, Head(bkrs).Account, height, TRUE)
         + SumBakers(name, Tail(bkrs), height)

FreshFold(b, accs, bkrs, ver) ==
    [name \in CounterNames |->
        SumOps(name, b.Ops, ver) + SumAccounts(name, accs, b.Height)
        + SumBakers(name, bkrs, b.Height)]

Updated == pc \in {"updated", "updated_again"}

-----------------------------------------------------------------------------
(* Claims *)

\* The ops AppendImplicitEvents appended.
EventOps == SelectSeq(block.Ops, LAMBDA o : o # NilOp /\ o.OpL = OPL_BLOCK_EVENTS)

FlowsAt(n) == {i \in 1..Len(flows) : flows[i].OpN = n}

\* C2: AppendImplicitEvents leaves in the block's op list an event op at
\* position n only if some implicit flow has OpN = n, and it leaves no nil
\* entry: a position without flows below the largest flow position adds
\* nothing to the list.
C2_OpOnlyWhereFlow ==
    pc = "events" =>
        \A i \in 1..Len(block.Ops) :
            /\ block.Ops[i] # NilOp
            /\ FlowsAt(block.Ops[i].OpN) # {}

\* A block whose flows leave position 0 empty and whose op list holds the one
\* op of position 1.
C2_Witness ==
    /\ pc = "events"
    /\ FlowsAt(0) = {} /\ FlowsAt(1) # {}
    /\ Len(block.Ops) = 1 /\ block.Ops[1].OpN = 1

IsBaking(f, cat) == f.Operation = "baking" /\ f.Category = cat /\ ~f.IsFee

\* Position n holds exactly one baking rewards flow (index r) and one baking
\* deposits flow (index d).
BakePair(n, r, d) ==
    /\ FlowsAt(n) = {r, d} /\ r # d
    /\ IsBaking(flows[r], "rewards") /\ IsBaking(flows[d], "deposits")

\* C3: a position whose implicit flows are exactly one baking rewards flow of
\* amount r and one baking deposits flow of amount d, in either order, gets
\* exactly one op, of type bake, with Reward = r and Deposit = d.
C3_BakeOp ==
    pc = "events" =>
        \A n \in 0..MaxN : \A r \in 1..Len(flows) : \A d \in 1..Len(flows) :
            BakePair(n, r, d) =>
                LET at == SelectSeq(EventOps, LAMBDA o : o.OpN = n)
                IN  /\ Len(at) = 1
                    /\ at[1].Type = "bake"
                    /\ at[1].Reward = flows[r].AmountIn
                    /\ at[1].Deposit = flows[d].AmountIn

\* Position 1 holds the deposits flow first and the rewards flow second.
C3_Witness ==
    /\ pc = "events"
    /\ Len(flows) >= 2
    /\ BakePair(1, 2, 1)
    /\ Len(EventOps) = 1

\* The op array after the first k flows of the block.
OpsAfter(k) == AssignFlows(MakeOps(flows), SubSeq(flows, 1, k), version)

\* The value of a monetary field is left alone or grows by the flow's amount.
KeptOrAdded(old, new, f) == new \in {old, old + f.AmountIn + f.AmountOut}

\* C4: once a flow has created the op of a position, no later flow at that
\* position changes its type or account, and each of its monetary fields is
\* either left as it is or grows by the later flow's amount: no value that an
\* earlier flow has set is replaced.  Stated for the case the claim names, a
\* bake op and the baking flows that feed it.
C4_FirstWriteWins ==
    pc = "events" =>
        \A k \in 1..Len(flows) :
            LET was == OpsAfter(k - 1)
                now == OpsAfter(k)
                f == flows[k]
            IN  \A n \in DOMAIN was :
                    (was[n] # NilOp /\ was[n].Type = "bake"
                        /\ f.OpN = n /\ f.Operation = "baking") =>
                        /\ now[n].Type = was[n].Type
                        /\ now[n].ReceiverId = was[n].ReceiverId
                        /\ now[n].SenderId = was[n].SenderId
                        /\ KeptOrAdded(was[n].Reward, now[n].Reward, f)
                        /\ KeptOrAdded(was[n].Deposit, now[n].Deposit, f)
                        /\ KeptOrAdded(was[n].Fee, now[n].Fee, f)
                        /\ KeptOrAdded(was[n].Burned, now[n].Burned, f)

\* C5: a second Block.Update in a row, on the same ops, accounts and bakers,
\* leaves every counter of the block and the parent's NSlotsEndorsed as the
\* first call left them.
C5_UpdateIdempotent ==
    [][(Updated /\ pc' = "updated_again") =>
            (Counters(block') = Counters(block) /\ parent' = parent)]_vars

\* Block.Update has run twice in a row on a block with an endorsement and a
\* seen account, under a parent.
C5_Witness ==
    /\ pc = "updated_again"
    /\ parent.Exists /\ parent.NSlotsEndorsed > 0
    /\ block.SeenAccounts > 0
    /\ block.GasUsed > 0

\* C6: after Block.Update every counter equals the sum, from zero, over the
\* block's current ops and the given accounts and bakers, whatever the
\* counters held before the call.
C6_FreshFold ==
    Updated => Counters(block) = FreshFold(block, accounts, bakers, version)

\* Block.Update ran on a block whose counters held the nonzero result of an
\* earlier call on other ops, and replaced them.
C6_Witness ==
    /\ pc = "updated"
    /\ prev.NOpsApplied + prev.NOpsFailed + prev.NEvents > 0
    /\ prev.GasUsed > 0
    /\ Len(block.Ops) > prev.NOpsApplied + prev.NOpsFailed + prev.NEvents
    /\ Counters(block) # Counters(prev)

\* What a flow mints: the amount an event op built from it carries as Reward
\* of a minting type.
FlowMinted(f) ==
    IF \/ f.Operation \in {"invoice", "bonus", "reward"}
       \/ f.Operation = "baking" /\ f.Category = "rewards"
       \/ f.Operation = "baking" /\ f.Category = "balance" /\ ~f.IsFee
       \/ f.Operation = "nonce_revelation" /\ f.IsBurned /\ f.Category = "balance"
       \/ f.Operation = "subsidy"
    THEN f.AmountIn ELSE 0

\* What a flow burns.
FlowBurned(f) ==
    IF f.IsBurned
    THEN IF f.Operation = "reward" THEN f.AmountIn ELSE f.AmountOut
    ELSE 0

RECURSIVE NetSupply(_)
\* Minted minus burned over a list of flows.
NetSupply(fs) ==
    IF fs = <<>> THEN 0
    ELSE FlowMinted(Head(fs)) - FlowBurned(Head(fs)) + NetSupply(Tail(fs))

\* C7: after Block.Update, MintedSupply - BurnedSupply of the block equals the
\* net amount of the block's supply-affecting flows (minted in minus burned
\* out), under every protocol version.
C7_Conservation ==
    Updated => block.MintedSupply - block.BurnedSupply = NetSupply(block.Flows)

\* The (list id, position-in-list, position-in-block) triple of an op.
Triple(o) == <<o.OpL, o.OpP, o.OpN>>

\* C1: after AppendImplicitEvents and AppendImplicitBlockOps no two ops of the
\* block share their (list id, position-in-list, position-in-block) triple,
\* the ops made for one implicit operation result included.
C1_UniquePositions ==
    pc = "blockops" =>
        \A i \in 1..Len(block.Ops) : \A j \in 1..Len(block.Ops) :
            i # j => Triple(block.Ops[i]) # Triple(block.Ops[j])

\* A fork has been rolled back and the new chain replayed up to its head.
ReorgDone == anc > 0 /\ CycleDone

\* Every row above the ancestor carries the hash of the followed chain's block
\* at its height, and none is a row of the chain that was rolled back.
FromNewChain ==
    \A h \in (anc + 1)..Len(store) :
        /\ store[h].Hash = target[h].Hash
        /\ \A g \in (anc + 1)..Len(before) : before[g].Hash # store[h].Hash

\* C8, as stated: after the rollback and replay of a fork every block row at
\* or below the common ancestor, the ancestor's NSlotsEndorsed included, is
\* what it was before the fork, and every row above it comes from the new
\* chain.
C8_ReorgIdentical ==
    ReorgDone =>
        /\ \A h \in 1..anc : store[h] = before[h]
        /\ FromNewChain

\* C8, amended: after the rollback and replay of a fork every block row below
\* the common ancestor is what it was before the fork; the ancestor's row is
\* what it was in every field but NSlotsEndorsed, which holds the endorsing
\* power of the new chain's block above the ancestor; every row above the
\* ancestor comes from the new chain.
C8_ReorgFrame ==
    ReorgDone =>
        /\ \A h \in 1..(anc - 1) : store[h] = before[h]
        /\ store[anc] =
              [before[anc] EXCEPT !.NSlotsEndorsed = target[anc + 1].Power]
        /\ FromNewChain

\* A fork two blocks deep below a chain of four has been replayed, and the new
\* chain's block above the ancestor endorses it with another power than the
\* old one did.
C8_Witness ==
    /\ ReorgDone
    /\ anc >= 2
    /\ Len(before) >= anc + 2
    /\ store[anc].NSlotsEndorsed # before[anc].NSlotsEndorsed

\* How many commits the log holds before position i.
CommitsBefore(i) == Cardinality({j \in 1..(i - 1) : log[j].Call = "commit"})

\* C9: on a fork with common ancestor A below the local head H, the calls made
\* from the detection of the fork on are Rollback(H), Rollback(H-1), ...,
\* Rollback(A+1) in this order, all of them before the first build or commit,
\* and every build and commit after them is of the block above the last
\* committed one, A+1, A+2, ..., with the hash the new chain has there.
C9_RollbackThenReplay ==
    anc > 0 =>
        \A i \in 1..Len(log) :
            IF log[i].Call = "rollback"
            THEN /\ i <= Len(before) - anc
                 /\ log[i].Height = Len(before) - i + 1
                 /\ log[i].Hash = before[Len(before) - i + 1].Hash
            ELSE /\ i > Len(before) - anc
                 /\ log[i].Height = anc + CommitsBefore(i) + 1
                 /\ log[i].Hash = target[log[i].Height].Hash

\* Two blocks have been rolled back and two blocks of the new chain committed.
C9_Witness ==
    /\ anc > 0
    /\ Len(before) - anc >= 2
    /\ CommitsBefore(Len(log) + 1) >= 2
    /\ cstate = "running"

\* C10: after an Indexer.Commit that failed or was cancelled the head pointer
\* is the height and hash of the last committed block row, the block below the
\* one whose commit failed, and the crawler can build and commit that same
\* block again.
C10_CommitAllOrNothing ==
    (log # <<>> /\ log[Len(log)].Call \in {"commit_failed", "commit_cancelled"}) =>
        /\ head = HeadOf(store[Len(store)])
        /\ head.Height = log[Len(log)].Height - 1
        /\ CanBuild
        /\ target[head.Height + 1].Hash = log[Len(log)].Hash
        /\ target[head.Height + 1].Parent = head.Hash

\* A commit failed or was cancelled, and a later commit of the same block
\* succeeded.
C10_Witness ==
    \E i \in 1..Len(log) : \E j \in (i + 1)..Len(log) :
        /\ log[i].Call \in {"commit_failed", "commit_cancelled"}
        /\ log[j].Call = "commit"
        /\ log[j].Height = log[i].Height
        /\ log[j].Hash = log[i].Hash
        /\ head = HeadOf(store[Len(store)])
        /\ head.Hash = log[j].Hash

\* The flows of the block at position-in-block n.
BlockFlowsAt(n) == {i \in 1..Len(block.Flows) : block.Flows[i].OpN = n}

\* C12: after AppendImplicitEvents and AppendImplicitBlockOps every op of the
\* block has at least one flow of the block at its position-in-block, the op
\* of an implicit origination without balance update and a subsidy op of zero
\* volume included.
C12_OpHasFlow ==
    pc = "blockops" =>
        \A i \in 1..Len(block.Ops) : BlockFlowsAt(block.Ops[i].OpN) # {}

\* The builder as AppendImplicitEvents left it, before AppendImplicitBlockOps.
BeforeBlockOps ==
    BuildState(AppendImplicitEvents(ZeroBlock, flows, version), {}, "")

\* C15: when AppendImplicitBlockOps returns an error the block's Ops, the
\* block's Flows and the builder's contract map are what they were before the
\* call.
C15_ErrorLeavesNothing ==
    pc = "failed" =>
        /\ block.Ops = BeforeBlockOps.block.Ops
        /\ block.Flows = BeforeBlockOps.block.Flows
        /\ conMap = BeforeBlockOps.conMap

\* The accounts that the origination results before result k name.
OriginatedBefore(k) ==
    {AccountByAddress(results[j].OriginatedContract) :
        j \in {i \in 1..(k - 1) : results[i].Kind = "origination"}}

\* Balance update u of result k names a valid address that is no known
\* account, or whose contract is neither stored nor originated before.
BadUpdate(k, u) ==
    /\ u.Address # ""
    /\ \/ u.Address \notin KnownAddresses
       \/ AccountByAddress(u.Address) \notin StoredContracts \cup OriginatedBefore(k)

\* Result k cannot be processed.
Fails(k) ==
    CASE results[k].Kind = "origination" ->
            \/ results[k].OriginatedContract \notin KnownAddresses
            \/ results[k].Script = "rpc_error"
      [] results[k].Kind = "transaction" ->
            \E i \in 1..Len(results[k].BalanceUpdates) :
                BadUpdate(k, results[k].BalanceUpdates[i])
      [] OTHER -> FALSE

\* The first result that cannot be processed, 0 if there is none.
FirstFail ==
    IF \E k \in 1..Len(results) : Fails(k)
    THEN CHOOSE k \in 1..Len(results) :
            Fails(k) /\ \A j \in 1..(k - 1) : ~Fails(j)
    ELSE 0

\* The ops a failing result k adds before it fails: one for each valid
\* balance update of a transaction before the first bad one, none for an
\* origination.
OpsOfFailing(k) ==
    IF results[k].Kind # "transaction" THEN 0
    ELSE LET us == results[k].BalanceUpdates
             bad == CHOOSE i \in 1..Len(us) :
                        BadUpdate(k, us[i]) /\ \A j \in 1..(i - 1) : ~BadUpdate(k, us[j])
         IN  Cardinality({j \in 1..(bad - 1) : us[j].Address # ""})

\* C16: AppendImplicitBlockOps returns an error exactly when some result names
\* an originated contract or a valid balance-update address that is no known
\* account, or whose script or contract cannot be loaded; it then stops at the
\* first such address: the block holds what the results before the failing
\* one produced, the ops of the failing result's balance updates before the
\* bad one, and nothing of any later balance update or result.
C16_StopsAtFirstFailure ==
    pc \in {"blockops", "failed"} =>
        IF FirstFail = 0 THEN pc = "blockops" /\ err = ""
        ELSE /\ pc = "failed" /\ err # ""
             /\ LET done == AppendImplicitBlockOps(BeforeBlockOps,
                                SubSeq(results, 1, FirstFail - 1))
                IN  /\ done.err = ""
                    /\ Len(block.Ops) = Len(done.block.Ops) + OpsOfFailing(FirstFail)
                    /\ SubSeq(block.Ops, 1, Len(done.block.Ops)) = done.block.Ops
                    /\ conMap = done.conMap

\* The first of two results fails, and the second one alone would have added
\* a subsidy op.
C16_Witness ==
    /\ pc = "failed"
    /\ Len(results) = 2
    /\ FirstFail = 1
    /\ ~Fails(2)
    /\ results[2].Kind = "transaction"
    /\ \E i \in 1..Len(results[2].BalanceUpdates) :
            results[2].BalanceUpdates[i].Address = "kt1_a"

\* Indexing is disabled: noindex is set, or no RPC client is used.
IndexingDisabled == run.noindexFlag \/ run.norpc

\* Call c is made somewhere before call d.
CalledBefore(c, d) ==
    \E i \in 1..Len(run.calls) : \E j \in (i + 1)..Len(run.calls) :
        run.calls[i] = c /\ run.calls[j] = d

\* C17: in runServer, when indexing is disabled the crawler is initialised in
\* MODE_INFO only, Start is never called and the crawler never builds or
\* commits a block; Start is called only after Init in MODE_SYNC has
\* succeeded; Stop is deferred or called only when Start was called.
C17_InfoNeverStarts ==
    /\ IndexingDisabled =>
          /\ run.mode \in {"", "MODE_INFO"}
          /\ Count(run.calls, "crawler.Init(MODE_SYNC)") = 0
          /\ Count(run.calls, "crawler.Start") = 0
          /\ Count(run.calls, "crawler.commit") = 0
    /\ Count(run.calls, "crawler.Start") > 0 =>
          CalledBefore("crawler.Init(MODE_SYNC)", "crawler.Start")
    /\ Count(run.calls, "crawler.commit") > 0 =>
          CalledBefore("crawler.Start", "crawler.commit")
    /\ (Count(run.defers, "crawler.Stop") > 0 \/ Count(run.calls, "crawler.Stop") > 0) =>
          Count(run.calls, "crawler.Start") > 0

\* runServer has run to its end without RPC client and without the noindex
\* switch: the crawler was initialised in MODE_INFO.
C17_Witness ==
    /\ run.pc = "done"
    /\ run.norpc /\ ~run.noindexFlag
    /\ Count(run.calls, "crawler.Init(MODE_INFO)") = 1
    /\ run.err = ""

\* The calls of the last FetchRPC with the given name.
FetchCalls(name) == {i \in 1..Len(fetch.calls) : fetch.calls[i].Name = name}

\* The block's height is the first height of a cycle, cycle 2 or later.
StartsCycleFrom2(h) == \E c \in 2..h : h = c * BlocksPerCycle + 1

\* C18: FetchRPC calls FetchRightsByCycle only for a block whose height is the
\* first of a cycle at or above the start of cycle 2, then once and for cycle
\* = the block's cycle + PreservedCycles; it does call it for every such block
\* once the block hash is valid and the raw block and the params are there.
C18_RightsAtCycleStart ==
    fetch.pc = "done" =>
        /\ \A i \in FetchCalls("FetchRightsByCycle") :
                /\ StartsCycleFrom2(fetch.block.Height)
                /\ fetch.calls[i].Arg = fetch.block.Cycle + PreservedCycles
        /\ Cardinality(FetchCalls("FetchRightsByCycle")) <= 1
        /\ (/\ StartsCycleFrom2(fetch.block.Height)
            /\ fetch.was.HashValid
            /\ fetch.block.TZ = "block"
            /\ fetch.block.HasParams) => FetchCalls("FetchRightsByCycle") # {}

\* Rights have been fetched for the first block of a cycle after cycle 2.
C18_Witness ==
    /\ fetch.pc = "done"
    /\ FetchCalls("FetchRightsByCycle") # {}
    /\ fetch.block.Cycle >= 3
    /\ fetch.err = ""

\* C19: FetchRPC stops at its first failure and returns it.  An invalid hash
\* fails before any call; a failed GetBlock is the last call; a failed
\* GetConstants is followed by no rights fetch; a failed FetchRightsByCycle is
\* returned; nil is returned only if every call made succeeded; GetBlock is
\* not called when the raw block is there, GetConstants not when the params
\* are.
C19_FirstFailureReturned ==
    fetch.pc = "done" =>
        /\ ~fetch.was.HashValid => fetch.calls = <<>> /\ fetch.err # ""
        /\ \A i \in 1..Len(fetch.calls) :
              LET failed ==
                    \/ fetch.calls[i].Name = "GetBlock" /\ ~fetch.node.GetBlock
                    \/ fetch.calls[i].Name = "GetConstants" /\ ~fetch.node.GetConstants
                    \/ fetch.calls[i].Name = "FetchRightsByCycle" /\ ~fetch.node.Rights
              IN  failed => i = Len(fetch.calls) /\ fetch.err # ""
        /\ fetch.was.TZ = "block" => FetchCalls("GetBlock") = {}
        /\ fetch.was.HasParams => FetchCalls("GetConstants") = {}

\* GetBlock succeeded and GetConstants failed on the first block of a cycle.
C19_Witness ==
    /\ fetch.pc = "done"
    /\ FetchCalls("GetBlock") # {}
    /\ FetchCalls("GetConstants") # {}
    /\ ~fetch.node.GetConstants
    /\ StartsCycleFrom2(fetch.block.Height)
    /\ fetch.err # ""

\* The first build's result that a later build from the same raw bundle and
\* parent is compared with.
SameAsSaved(b) ==
    /\ b.Ops = mem.saved[1].Ops
    /\ b.Flows = mem.saved[1].Flows
    /\ Counters(b) = mem.saved[1].Counters

\* C11: a block that was built, rolled back and freed, and is built again from
\* the same raw bundle, parent and accounts, on whichever object the pool
\* hands out, has the same Ops, the same Flows and the same aggregate counters
\* as the first build gave.
C11_ReplaySame ==
    \A i \in Live(mem) :
        (/\ mem.meta[i].built
         /\ mem.saved # <<>>
         /\ mem.meta[i].inputs[1] = mem.saved[1].inputs) => SameAsSaved(mem.objs[i])

\* The one Block object there is was built with an event op and an account,
\* rolled back and freed, taken from the pool again and built from the same
\* bundle.
C11_Witness ==
    /\ Len(mem.objs) = 1
    /\ mem.meta[1].state = "live" /\ mem.meta[1].built /\ mem.meta[1].uses = 2
    /\ mem.saved # <<>>
    /\ mem.meta[1].inputs[1] = mem.saved[1].inputs
    /\ Len(mem.objs[1].Ops) = 1
    /\ mem.objs[1].SeenAccounts = 1

\* C13: every Block that NewBlock takes from the pool is handed to the caller
\* or put back into the pool, also when NewBlock fails for a missing bundle
\* or raw block.
C13_NoBlockLost ==
    \A i \in 1..Len(mem.objs) : mem.meta[i].state # "lost"

\* The fields of a Block that NewBlock assigns.
NewBlockFields ==
    {"TZ", "Params", "Chain", "Supply", "Height", "Cycle", "Timestamp", "Hash",
     "Version", "Round", "LbEscapeVote", "LbEscapeEma", "VotingPeriodKind",
     "ParentId", "Parent", "Solvetime"}

RECURSIVE ChildrenHeld(_)
\* The ops and flows that the blocks hold.
ChildrenHeld(objs) ==
    IF objs = <<>> THEN 0
    ELSE Len(Head(objs).Ops) + Len(Head(objs).Flows) + ChildrenHeld(Tail(objs))

\* C14: a Block in the pool, put there by Free, has every scalar field zero,
\* the invalid hash, every reference nil and no ops and flows, and each op and
\* flow it held is freed (none is handed out that no block holds); a Block
\* that NewBlock has just returned holds, in every field NewBlock does not
\* assign, the zero value: no counter, flag, op or flow of an earlier use.
C14_FreeClears ==
    /\ \A i \in Pooled(mem) : mem.objs[i] = [NewObject EXCEPT !.Hash = "invalid"]
    /\ mem.children = ChildrenHeld(mem.objs)
    /\ \A i \in Live(mem) :
          (~mem.meta[i].built /\ mem.objs[i].RowId = 0) =>
              \A f \in (DOMAIN NewObject) \ NewBlockFields :
                  mem.objs[i][f] = NewObject[f]

\* The one Block object there is was built with an op, filled in, freed, and
\* is in use again, just returned by NewBlock.
C14_Witness ==
    /\ Len(mem.objs) = 1
    /\ mem.meta[1].state = "live" /\ ~mem.meta[1].built /\ mem.meta[1].uses = 2
    /\ mem.objs[1].RowId = 0
    /\ mem.saved # <<>>
    /\ Len(mem.saved[1].Ops) = 1

\* C20: the Chain and the Supply of a block in use hold what its parent's
\* held when NewBlock made the block (zero without parent), changed only by
\* the writes made through the block itself: a write through the parent or
\* through any other block does not reach them.
C20_CopiedNotShared ==
    \A i \in Live(mem) : \A f \in {"Chain", "Supply"} :
        /\ mem.objs[i][f] # 0
        /\ mem.heap[mem.objs[i][f]] = mem.meta[i].born[f] + mem.meta[i].writes[f]

\* A child made when its parent's Chain held 1; the child's Chain has been
\* written since and the parent's has not.
C20_Witness ==
    \E i \in Live(mem) : \E p \in Live(mem) :
        /\ mem.objs[i].Parent = p
        /\ mem.meta[i].born.Chain = 1
        /\ mem.meta[i].writes.Chain = 1
        /\ mem.heap[mem.objs[i].Chain] = 2
        /\ mem.heap[mem.objs[p].Chain] = 1

\* The flows of position n are invoice flows, all of them.
OnlyInvoiceAt(n) ==
    /\ FlowsAt(n) # {}
    /\ \A i \in FlowsAt(n) : flows[i].Operation = "invoice"

\* The first flow of position n.
FirstAt(n) == CHOOSE i \in FlowsAt(n) : \A j \in FlowsAt(n) : i <= j

\* C21: AppendImplicitEvents appends every implicit flow to the block's flows
\* under every protocol version; an op of type invoice exists only under
\* version 9 or later, where the invoice flow that opens a position gives it
\* an invoice op sent by the flow's account; under a lower version a position
\* that holds only invoice flows gets no op.
C21_InvoiceGate ==
    pc = "events" =>
        /\ block.Flows = flows
        /\ \A i \in 1..Len(block.Ops) :
                block.Ops[i].Type = "invoice" => version >= 9
        /\ \A n \in 0..MaxN :
            /\ (OnlyInvoiceAt(n) /\ version < 9) =>
                    \A i \in 1..Len(block.Ops) : block.Ops[i].OpN # n
            /\ (FlowsAt(n) # {} /\ flows[FirstAt(n)].Operation = "invoice"
                    /\ version >= 9) =>
                    \E i \in 1..Len(block.Ops) :
                        /\ block.Ops[i].OpN = n
                        /\ block.Ops[i].Type = "invoice"
                        /\ block.Ops[i].SenderId = flows[FirstAt(n)].AccountId

\* Under version 8 an invoice flow is in the block's flows and the block has
\* no op.
C21_Witness ==
    /\ pc = "events"
    /\ version = 8
    /\ Len(flows) = 1 /\ flows[1].Operation = "invoice"
    /\ block.Flows = flows
    /\ block.Ops = <<>>

\* The blocks in use that NewBlock made under a parent.
WithParent == {i \in Live(mem) : mem.meta[i].inputs[1].parent # 0}

\* The ticks from the parent's timestamp to the block's.
TicksSinceParent(i) ==
    mem.objs[i].Timestamp - mem.objs[mem.meta[i].inputs[1].parent].Timestamp

\* C22: a block that NewBlock made under a parent has as Solvetime the whole
\* seconds from the parent's timestamp to its own (a started second does not
\* count), and 0 when its timestamp is before the parent's; no block has a
\* negative Solvetime.
C22_Solvetime ==
    /\ \A i \in 1..Len(mem.objs) : mem.objs[i].Solvetime >= 0
    /\ \A i \in WithParent :
        LET d == TicksSinceParent(i)
            s == mem.objs[i].Solvetime
        IN  /\ d < 0 => s = 0
            /\ d >= 0 => (s * TicksPerSecond <= d /\ d < (s + 1) * TicksPerSecond)

\* A block lies a second and a half before its parent.
C22_Witness ==
    \E i \in WithParent :
        TicksSinceParent(i) = -3 /\ mem.objs[i].Solvetime = 0

\* The flows that line 35 turns away: a position below 0 or above the
\* position of the last flow.
Unassigned ==
    {i \in 1..Len(flows) : flows[i].OpN < 0 \/ flows[i].OpN > flows[Len(flows)].OpN}

\* C23: when a flow cannot get a slot of the op array, AppendImplicitEvents
\* returns an error: it does not return nil with that flow in the block's
\* flows.
C23_UnassignedFlowFails ==
    (pc = "events" /\ Unassigned # {}) => err # ""

\* C24: Block.Clean ends without fault on every block that FetchRPC has
\* worked on, also on one whose bundle FetchRPC made and whose raw block it
\* failed to load.
C24_CleanNeverFaults == fetch.pc # "fault"

\* The ops and flows in the lists of block i.
Held(m, i) == Len(m.objs[i].Ops) + Len(m.objs[i].Flows)

\* C25: over any sequence of Clean, Reset and Free on a block, Op.Free and
\* Flow.Free are called once on each op and flow that has left the block's
\* lists and not at all on those still in them (the calls made number the
\* children made less the children held), and each of the three calls frees
\* the children held and leaves both lists empty, so that a later call frees
\* none of them again.
C25_ChildFreedOnce ==
    /\ [](\A i \in 1..Len(mem.objs) :
            mem.meta[i].frees + Held(mem, i) = mem.meta[i].made)
    /\ [][\A i \in 1..Len(mem.objs) :
            (mem'.meta[i].uses = mem.meta[i].uses
                /\ mem'.meta[i].passes > mem.meta[i].passes) =>
                /\ Held(mem', i) = 0
                /\ mem'.meta[i].frees = mem.meta[i].frees + Held(mem, i)]_vars

\* A built block with children has been cleaned, reset and freed, and each
\* child has been freed once.
C25_Witness ==
    \E i \in Pooled(mem) :
        /\ mem.meta[i].passes = 3
        /\ mem.meta[i].made >= 2
        /\ mem.meta[i].frees = mem.meta[i].made

\* The request filters on an account column by equality or list, and every
\* address of the value is well-formed and has no account.
FilterOnUnknown ==
    /\ api.req.filter # <<>>
    /\ api.req.filter[1].mode \in {"eq", "in"}
    /\ \A i \in 1..Len(api.req.filter[1].vals) :
        /\ api.req.filter[1].vals[i] \in WellFormed
        /\ LookupAccount(api.req.filter[1].vals[i]) = 0

\* C26: an equality or list filter on sender, receiver, creator, baker or
\* address whose addresses are well-formed and have no account gives a
\* response without rows.
C26_UnknownSelectsNothing ==
    (api.pc = "done" /\ api.res.panic = "" /\ FilterOnUnknown) =>
        api.res.ops = <<>>

\* The tokens between the brackets are values and commas in turn, from a
\* value to a value.
WellFormedArray(toks) ==
    /\ Len(toks) >= 2
    /\ toks[1] = "[" /\ toks[Len(toks)] = "]"
    /\ Len(toks) > 2 => Len(toks) % 2 = 1
    /\ \A i \in 2..(Len(toks) - 1) :
        IF i % 2 = 0 THEN toks[i] \notin {",", "[", "]"} ELSE toks[i] = ","

\* C30: for every list of columns that StreamOpTable accepts, each row of the
\* response is a well-formed JSON array: values with one comma between
\* neighbours and none before the first or after the last.
C30_BriefWellFormed ==
    (api.pc = "done" /\ api.res.panic = "") =>
        \A i \in 1..Len(api.res.body) : WellFormedArray(api.res.body[i])

\* Position (n, c, i) comes before position (m, d, j) in lexicographic order.
PosBefore(o, p) ==
    \/ o.OpN < p.OpN
    \/ o.OpN = p.OpN /\ o.OpC < p.OpC
    \/ o.OpN = p.OpN /\ o.OpC = p.OpC /\ o.OpI < p.OpI

\* The ops are unique in and ordered by (OpN, OpC, OpI).
OrderedOps(ops) ==
    \A i \in 1..Len(ops) : \A j \in 1..Len(ops) :
        i < j => PosBefore(ops[i], ops[j])

\* The ops at exactly the position asked for.
ExactOps ==
    {k \in 1..Len(lookup.ops) :
        /\ lookup.ops[k].OpN = lookup.opn
        /\ lookup.ops[k].OpC = lookup.opc
        /\ lookup.ops[k].OpI = lookup.opi}

\* C27: on ops ordered by and unique in (OpN, OpC, OpI), GetOpId with opn >= 0
\* and an op at exactly (opn, opc, opi) returns that op's row id and found =
\* true; with opn < 0 it returns found = false on any ops.
C27_ExactOpFound ==
    lookup.pc = "done" =>
        /\ lookup.opn < 0 => ~lookup.res.found
        /\ (lookup.opn >= 0 /\ OrderedOps(lookup.ops)) =>
                \A k \in ExactOps :
                    /\ lookup.res.found
                    /\ lookup.res.id = lookup.ops[k].RowId

\* The op asked for is the last of three ordered ops, after an op with a
\* larger OpC and one with a larger OpI.
C27_Witness ==
    /\ lookup.pc = "done"
    /\ OrderedOps(lookup.ops)
    /\ Len(lookup.ops) = 3 /\ ExactOps = {3}
    /\ lookup.ops[1].OpC > lookup.opc
    /\ lookup.ops[2].OpI > lookup.opi
    /\ lookup.res = [id |-> 3, found |-> TRUE]

\* The ops of the block that are successful or not, events or not.
OpsThat(success, event) ==
    {i \in 1..Len(block.Ops) :
        block.Ops[i].IsSuccess = success /\ block.Ops[i].IsEvent = event}

\* C28: after Block.Update every op of the block is counted once: the
\* successful events in NEvents, the other successful ops in NOpsApplied, the
\* unsuccessful ops in NOpsFailed, and the three counters add up to the number
\* of ops.
C28_EveryOpCountedOnce ==
    Updated =>
        /\ block.NEvents = Cardinality(OpsThat(TRUE, TRUE))
        /\ block.NOpsApplied = Cardinality(OpsThat(TRUE, FALSE))
        /\ block.NOpsFailed =
                Cardinality(OpsThat(FALSE, TRUE) \cup OpsThat(FALSE, FALSE))
        /\ block.NOpsApplied + block.NOpsFailed + block.NEvents = Len(block.Ops)

\* An updated block with a failed op and an event.
C28_Witness ==
    /\ Updated
    /\ Len(block.Ops) = 2
    /\ block.NOpsFailed = 1 /\ block.NEvents = 1 /\ block.NOpsApplied = 0

\* The teardown of runServer, in the order the claim gives it.
Teardown == <<"srv.Stop", "crawler.Stop", "indexer.Close", "cancel", "statedb.Close">>

\* What each teardown call undoes: the call after which it is owed.
SetUp == <<"srv.Start", "crawler.Start", "etl.NewIndexer", "etl.NewIndexer",
           "statedb.opened", "statedb.created">>

\* The teardown call t is owed: its component exists (the indexer is made
\* right after the context, lines 76-87).
Owed(t) ==
    IF t = 5 THEN Count(run.calls, SetUp[5]) + Count(run.calls, SetUp[6]) > 0
    ELSE Count(run.calls, SetUp[t]) > 0

\* The places in run.calls of the teardown calls made so far.
TeardownAt == {k \in 1..Len(run.calls) : \E t \in 1..5 : run.calls[k] = Teardown[t]}

\* Component c (crawler or srv) is running after the first k calls.
RunningAfter(c, k) ==
    /\ \E i \in 1..k : run.calls[i] = c \o ".Start"
    /\ ~\E i \in 1..k : run.calls[i] = c \o ".Stop"

\* C29: on every exit path of runServer once the components exist, the
\* teardown calls are made in the order srv.Stop, crawler.Stop, indexer.Close,
\* cancel, statedb.Close, each one exactly when its component was started or
\* made and at most once, nothing is set up after the teardown has begun (a
\* crawler not yet stopped may still commit), and
\* neither the indexer nor the state database is closed while the crawler or
\* the HTTP server is running.
C29_TeardownOrder ==
    /\ \A t \in 1..5 : Count(run.calls, Teardown[t]) <= 1
    /\ \A s \in 1..5 : \A t \in (s + 1)..5 : ~CalledBefore(Teardown[t], Teardown[s])
    /\ \A k \in TeardownAt : \A j \in (k + 1)..Len(run.calls) :
          j \in TeardownAt \/ run.calls[j] = "crawler.commit"
    /\ \A k \in 1..Len(run.calls) :
          run.calls[k] \in {"indexer.Close", "statedb.Close"} =>
              ~RunningAfter("crawler", k) /\ ~RunningAfter("srv", k)
    /\ run.pc = "done" =>
          \A t \in 1..5 : (Count(run.calls, Teardown[t]) = 1) <=> Owed(t)

\* server.New fails after the crawler was started: runServer returns the
\* error and stops the crawler before it closes the indexer and the databases.
C29_Witness ==
    /\ run.pc = "done"
    /\ run.err = "server.New"
    /\ Len(run.calls) >= 4
    /\ SubSeq(run.calls, Len(run.calls) - 3, Len(run.calls)) =
            <<"crawler.Stop", "indexer.Close", "cancel", "statedb.Close">>

\* A signal ends a process that runs the crawler and the HTTP server.
C29_WitnessSignal ==
    /\ run.pc = "done"
    /\ run.err = ""
    /\ Len(run.calls) >= 5
    /\ SubSeq(run.calls, Len(run.calls) - 4, Len(run.calls)) = Teardown

====
